---- MODULE Spec2Model ----
(***************************************************************************)
(* Affection computation of dnogares/catastro-2026.                        *)
(*                                                                         *)
(* Two specifications share this module:                                   *)
(*   SpecAgg     the multi-layer aggregation of the REST handlers          *)
(*               (main.py: paso1_analizar, paso2_generar_pdf,              *)
(*               analizar_afecciones_manual) and the table the PDF         *)
(*               generator derives from the aggregated report;             *)
(*   SpecOverlay the per-layer overlay of procesar_parcelas                *)
(*               (afecciones/vector_analyzer.py) and of                    *)
(*               AnalisisUrbano.calcular_porcentajes.                      *)
(*                                                                         *)
(* Units: areas are whole square metres; a percentage is an integer number *)
(* of hundredths of a percent (10.2 % is 1020, 100 % is 10000).            *)
(* A Python dict is a function whose domain is its set of keys; d.get(k,v) *)
(* is Get(d, k, v).                                                        *)
(***************************************************************************)
EXTENDS Integers, Sequences, FiniteSets, TLC

VARIABLES
    todas_capas,   \* the layer files under CAPAS_DIR, in the order they are listed
    pc,            \* the handler that has run: "inicio" (none), "paso1", "paso2", "manual"
    peticion,      \* the inputs of the request being served
    informe,       \* the report the handler built: res_afecciones (paso 1),
                   \* resultados_afecciones (paso 2), resultados_capas (manual)
    tabla          \* the rows AfeccionesPDF._dibujar_tabla_afecciones drew from it

aggvars == <<todas_capas, pc, peticion, informe, tabla>>

VARIABLES
    parcelas_origen, \* the parcel files of datos_origen, in the order listed
    capas_wms,       \* the layer configurations, each a dict that procesar_parcelas
                     \* extends with the key "porcentaje_detalle"
    pc_ov,           \* "inicio", "parcelas" (procesar_parcelas is running or has run),
                     \* "urbano" (calcular_porcentajes has run)
    i_parcela,       \* how many parcel files procesar_parcelas has gone through
    resultados,      \* procesar_parcelas: the rows gathered for the last parcel
    impresos,        \* procesar_parcelas: the layers whose exception was printed
                     \* for the last parcel
    entrada_urbano,  \* calcular_porcentajes: the arguments of the call,
                     \* <<gdf_parcela, gdf_planeamiento>>
    urbano           \* calcular_porcentajes: the pair (areas_m2, porcentajes) returned

ovvars == <<parcelas_origen, capas_wms, pc_ov, i_parcela, resultados, impresos,
            entrada_urbano, urbano>>

VARIABLES
    leyendas_csv,    \* the legend files under capas/wms: file stem -> what the CSV holds
    estilos          \* get_legend_styling: capa_nombre -> the styling returned for it

estvars == <<leyendas_csv, estilos>>

VARIABLES
    servidor_wfs,    \* the layer each typename of the WFS service serves now
    wfs_cache,       \* AnalisisUrbano._wfs_cache: cache_key -> layer
    hilos,           \* the calls of descargar_capa_wfs in progress, one per thread
    poblados,        \* cache_key -> how often line 159 stored an entry since the
                     \* cache was last empty
    entregas         \* cache_key -> the layers returned for it to callers that use
                     \* the cache

cachevars == <<servidor_wfs, wfs_cache, hilos, poblados, entregas>>

VARIABLES
    entrada_raster,  \* calcular_porcentaje_pixeles: the arguments of the call
    pc_raster,       \* "inicio" or "hecho"
    pct_raster       \* calcular_porcentaje_pixeles: the value returned

rastervars == <<entrada_raster, pc_raster, pct_raster>>

VARIABLES
    entrada_crs,     \* the CRS metadata of the files of a run and the path taken
    pc_crs,          \* how far the run has come
    marco_crs,       \* the CRS of the parcel frame the run holds now
    areas_crs        \* the areas taken so far, each with the CRS of its geometry

crsvars == <<entrada_crs, pc_crs, marco_crs, areas_crs>>

VARIABLES
    entrada_descarga, \* descargar_todo_completo: what each of its steps meets
    pc_descarga,      \* descargar_todo_completo: the next step
    gml_path,         \* descargar_todo_completo: the local gml_path
    pasos,            \* descargar_todo_completo: the steps run so far, in order
    retorno           \* descargar_todo_completo: the tuple returned

descvars == <<entrada_descarga, pc_descarga, gml_path, pasos, retorno>>

VARIABLES
    entrada_get,     \* safe_get: max_retries and what each request meets
    pc_get,          \* safe_get: in the loop, returned or raised
    attempt,         \* safe_get: the requests made so far
    last_exc,        \* safe_get: the local last_exc
    retorno_get      \* safe_get: the response returned or the exception raised

getvars == <<entrada_get, pc_get, attempt, last_exc, retorno_get>>

VARIABLES
    entrada_tmp,     \* procesar_parcela: what each step of the map meets
    pc_tmp,          \* procesar_parcela: the next step
    rutas_tmp,       \* procesar_parcela: ortofoto_path, urbanismo_path, leyenda_path
    archivos_tmp     \* the temporary files of the call that are on disk

tmpvars == <<entrada_tmp, pc_tmp, rutas_tmp, archivos_tmp>>

otrosvars == <<crsvars, descvars, getvars, tmpvars>>

extvars == <<estvars, cachevars, rastervars, otrosvars>>

vars == <<aggvars, ovvars, extvars>>

----------------------------------------------------------------------------
(* Bounds *)

\* longest list of layer files analysed by one request
MaxCapas == 2

\* longest capas_list of a manual request
MaxPedidas == 2

----------------------------------------------------------------------------
(* Python dict helpers *)

EmptyDict == [k \in {} |-> 0]

Get(d, k, default) == IF k \in DOMAIN d THEN d[k] ELSE default

Put(d, k, v) == [x \in (DOMAIN d) \cup {k} |-> IF x = k THEN v ELSE d[x]]

RECURSIVE SumSeq(_)
SumSeq(s) == IF s = <<>> THEN 0 ELSE Head(s) + SumSeq(Tail(s))

MaxOf(S) == CHOOSE m \in S : \A x \in S : x <= m

----------------------------------------------------------------------------
(* The layer files and what analysing each one against the parcel yields.  *)
(* A layer file is described by what the analyser meets in it:             *)
(*   nombre        the file's stem (capa_path.stem)                        *)
(*   estado        "ok", "error" (analizar returns {"error": ...}) or      *)
(*                 "excepcion" (analizar raises)                           *)
(*   area_parcela  the parcel area computed during this layer's analysis   *)
(*   solapes       the overlap of the parcel with each class of the layer: *)
(*                 a sequence of [clase, area]                             *)

Nombres == {"Zona Inundable", "Espacio Natural"}

SolapesPosibles ==
    { <<>>,
      <<[clase |-> "General", area |-> 102]>>,
      <<[clase |-> "General", area |-> 53]>>,
      <<[clase |-> "General", area |-> 300]>>,
      <<[clase |-> "General", area |-> 700]>>,
      <<[clase |-> "Dominio", area |-> 250], [clase |-> "Servidumbre", area |-> 125]>> }

Clases == {"General", "Dominio", "Servidumbre"}

\* the layers whose analysis computes another parcel area than the rest
SolapesOtraArea ==
    { <<[clase |-> "Dominio", area |-> 250], [clase |-> "Servidumbre", area |-> 125]>> }

CapasPosibles ==
    [nombre : Nombres, estado : {"error", "excepcion"}, area_parcela : {1000},
     solapes : {<<>>}]
    \cup
    [nombre : Nombres, estado : {"ok"}, area_parcela : {1000}, solapes : SolapesPosibles]
    \cup
    [nombre : Nombres, estado : {"ok"}, area_parcela : {1250}, solapes : SolapesOtraArea]

RECURSIVE SeqsUpTo(_, _)
SeqsUpTo(S, n) ==
    IF n = 0 THEN {<<>>}
    ELSE LET shorter == SeqsUpTo(S, n - 1)
         IN  shorter \cup {Append(s, x) : s \in {t \in shorter : Len(t) = n - 1}, x \in S}

----------------------------------------------------------------------------
(* VectorAnalyzer.analizar: the OverlayResult of one layer.                *)

\* percent of a parcel covered by an area, in hundredths of a percent,
\* rounded to two decimals
Porcentaje(area, area_parcela) == (2 * area * 10000 + area_parcela) \div (2 * area_parcela)

Clamp(p) == IF p < 0 THEN 0 ELSE IF p > 10000 THEN 10000 ELSE p

\* the materiality threshold, 0.01 %
UmbralMaterialidad == 1

RECURSIVE Afecciones(_, _)
Afecciones(solapes, area_parcela) ==
    IF solapes = <<>> THEN <<>>
    ELSE LET s == Head(solapes)
             p == Porcentaje(s.area, area_parcela)
             resto == Afecciones(Tail(solapes), area_parcela)
         IN  IF p <= UmbralMaterialidad THEN resto
             ELSE <<[clase |-> s.clase, area_m2 |-> s.area, porcentaje |-> p]>> \o resto

RECURSIVE AreaSolapada(_)
AreaSolapada(solapes) ==
    IF solapes = <<>> THEN 0 ELSE Head(solapes).area + AreaSolapada(Tail(solapes))

AnalizarLanza(capa) == capa.estado = "excepcion"

Analizar(capa) ==
    IF capa.estado = "error" THEN [error |-> "capa no disponible"]
    ELSE [ afecciones_detectadas |-> capa.solapes # <<>>,
           area_parcela_m2 |-> capa.area_parcela,
           afecciones |-> Afecciones(capa.solapes, capa.area_parcela),
           total_afectado_m2 |-> AreaSolapada(capa.solapes),
           total_afectado_percent |->
               Clamp(Porcentaje(AreaSolapada(capa.solapes), capa.area_parcela)) ]

\* a layer whose analysis neither raised nor returned an error
Evaluada(capa) == capa.estado = "ok"

----------------------------------------------------------------------------
(* paso2_generar_pdf: the aggregation loop, main.py 608-653                *)

\* line 626: the result is left out of the report
SaltarCapa(res_capa) ==
    "error" \in DOMAIN res_capa \/ ~Get(res_capa, "afecciones_detectadas", FALSE)

\* lines 630-631: the parcel area is set once
FijarAreaTotal(area_total_m2, res_capa) ==
    IF area_total_m2 = 0 THEN Get(res_capa, "area_parcela_m2", 0) ELSE area_total_m2

\* mutant of Clave: the key is the layer's name alone
ClaveSoloCapa(nombre_capa, clase) == nombre_capa

\* line 636: the key of one class of one layer in "detalle"
Clave(nombre_capa, clase) == nombre_capa \o " - " \o clase

\* lines 635-638: one entry per class of the layer, holding its percentage
RECURSIVE AgregarDetalles(_, _, _)
AgregarDetalles(detalle, nombre_capa, afecciones) ==
    IF afecciones = <<>> THEN detalle
    ELSE LET af == Head(afecciones)
         IN  AgregarDetalles(
                 Put(detalle, Clave(nombre_capa, Get(af, "clase", "General")),
                     Get(af, "porcentaje", 0)),
                 nombre_capa, Tail(afecciones))

\* mutant of NuevoMaximo: the layers' figures are added up
NuevoMaximoSuma(max_pct, max_area, total_capa_pct, total_capa_area) ==
    <<max_pct + total_capa_pct, max_area + total_capa_area>>

\* lines 644-646: the running maximum, as <<percent, area>>
NuevoMaximo(max_pct, max_area, total_capa_pct, total_capa_area) ==
    IF total_capa_pct > max_pct THEN <<total_capa_pct, total_capa_area>>
    ELSE <<max_pct, max_area>>

\* lines 608-615: the state of the loop before the first layer
InicioPdf ==
    [ res |-> [detalle |-> EmptyDict, total |-> 0, area_total_m2 |-> 0,
               area_afectada_m2 |-> 0],
      max_afeccion_pct |-> 0,
      max_afeccion_area |-> 0 ]

\* mutant of ExceptCapaPdf: the exception discards what the loop had gathered
ExceptCapaPdfDescarta(st) ==
    [ res |-> [detalle |-> EmptyDict, total |-> 0, area_total_m2 |-> 0,
               area_afectada_m2 |-> 0],
      max_afeccion_pct |-> 0,
      max_afeccion_area |-> 0 ]

\* lines 648-649: the layer's exception is printed and the loop goes on
ExceptCapaPdf(st) == st

\* lines 618-649: the body of the loop for one layer
PasoCapaPdf(st, capa) ==
    IF AnalizarLanza(capa) THEN ExceptCapaPdf(st)
    ELSE LET res_capa == Analizar(capa) IN
         IF SaltarCapa(res_capa) THEN st
         ELSE LET m == NuevoMaximo(st.max_afeccion_pct, st.max_afeccion_area,
                                   Get(res_capa, "total_afectado_percent", 0),
                                   Get(res_capa, "total_afectado_m2", 0))
              IN  [ res |-> [st.res EXCEPT
                        !["area_total_m2"] = FijarAreaTotal(@, res_capa),
                        !["detalle"] = AgregarDetalles(@, capa.nombre,
                                           Get(res_capa, "afecciones", <<>>))],
                    max_afeccion_pct |-> m[1],
                    max_afeccion_area |-> m[2] ]

RECURSIVE BuclePdf(_, _)
BuclePdf(st, capas) ==
    IF capas = <<>> THEN st ELSE BuclePdf(PasoCapaPdf(st, Head(capas)), Tail(capas))

\* lines 608-653: the report of the layers
AgregarPdf(capas) ==
    LET st == BuclePdf(InicioPdf, capas)
    IN  [st.res EXCEPT !["total"] = st.max_afeccion_pct,
                       !["area_afectada_m2"] = st.max_afeccion_area]

----------------------------------------------------------------------------
(* AfeccionesPDF.generar and _dibujar_tabla_afecciones, pdf_generator.py   *)

\* lines 205-226: the rows of the table; areas in hundredths of a square metre
DibujarTablaAfecciones(resultados_pdf) ==
    LET detalles == Get(resultados_pdf, "detalle", EmptyDict)
        area_total == Get(resultados_pdf, "area_parcela_m2", 0)
    IN  [ dibujada |-> TRUE,
          area_total |-> area_total,
          filas |-> [n \in DOMAIN detalles |->
                        [ porcentaje |-> detalles[n],
                          area |-> IF area_total # 0
                                   THEN (detalles[n] * area_total) \div 100
                                   ELSE 0 ]],
          sin_afecciones |-> (DOMAIN detalles = {}),
          total_porcentaje |-> Get(resultados_pdf, "total", 0),
          total_area |-> 100 * Get(resultados_pdf, "area_afectada_m2", 0) ]

SinTabla == [dibujada |-> FALSE]

\* lines 93-97: the table is drawn for a non-empty report only
Generar(resultados_pdf, incluir_tabla) ==
    IF incluir_tabla /\ DOMAIN resultados_pdf # {}
    THEN DibujarTablaAfecciones(resultados_pdf)
    ELSE SinTabla

\* get_legend_styling when it is not under study
EstiloEnReposo ==
    /\ leyendas_csv = EmptyDict
    /\ estilos = EmptyDict

\* the WFS cache when it is not under study
CacheEnReposo ==
    /\ servidor_wfs = EmptyDict
    /\ wfs_cache = EmptyDict
    /\ hilos = <<>>
    /\ poblados = EmptyDict
    /\ entregas = EmptyDict

\* the raster estimator when it is not under study
RasterEnReposo ==
    /\ entrada_raster = <<>>
    /\ pc_raster = "inicio"
    /\ pct_raster = 0

\* the CRS runs when they are not under study
CrsEnReposo ==
    /\ entrada_crs = <<>>
    /\ pc_crs = "inicio"
    /\ marco_crs = "None"
    /\ areas_crs = {}

\* descargar_todo_completo when it is not under study
DescargaEnReposo ==
    /\ entrada_descarga = <<>>
    /\ pc_descarga = "inicio"
    /\ gml_path = "None"
    /\ pasos = <<>>
    /\ retorno = <<>>

\* safe_get when it is not under study
SafeGetEnReposo ==
    /\ entrada_get = <<>>
    /\ pc_get = "inicio"
    /\ attempt = 0
    /\ last_exc = "None"
    /\ retorno_get = "None"

\* the temporary files when they are not under study
TemporalesEnReposo ==
    /\ entrada_tmp = <<>>
    /\ pc_tmp = "inicio"
    /\ rutas_tmp = EmptyDict
    /\ archivos_tmp = {}

OtrosEnReposo ==
    /\ CrsEnReposo
    /\ DescargaEnReposo
    /\ SafeGetEnReposo
    /\ TemporalesEnReposo

\* the overlay state when only the REST handlers run
OverlayEnReposo ==
    /\ parcelas_origen = <<>>
    /\ capas_wms = <<>>
    /\ pc_ov = "inicio"
    /\ i_parcela = 0
    /\ resultados = <<>>
    /\ impresos = {}
    /\ entrada_urbano = <<>>
    /\ urbano = <<EmptyDict, EmptyDict>>

----------------------------------------------------------------------------
(* paso1_analizar, main.py 286-565                                         *)

\* line 352
ANALISIS_AFECCIONES_ACTIVO == FALSE

\* catastro_downloader.py 1068 and 1101: what descargar_todo_completo returns
DescargarTodoCompleto(exito) ==
    IF exito THEN <<TRUE, "zip", "pixel_data">> ELSE <<FALSE, "None", "{}">>

\* lines 342-348
InicioPaso1 ==
    [ res |-> [detalle |-> EmptyDict, total |-> 0, area_total_m2 |-> 0,
               afecciones_detectadas |-> FALSE, mensaje |-> "desactivado"],
      max_afeccion |-> 0 ]

\* lines 376-380: one entry per class of the layer, holding its area
RECURSIVE AgregarDetallesArea(_, _, _)
AgregarDetallesArea(detalle, nombre_capa, afecciones) ==
    IF afecciones = <<>> THEN detalle
    ELSE LET af == Head(afecciones)
         IN  AgregarDetallesArea(
                 Put(detalle, Clave(nombre_capa, Get(af, "clase", "General")),
                     Get(af, "area_m2", 0)),
                 nombre_capa, Tail(afecciones))

\* lines 358-388: the body of the loop for one layer
PasoCapaPaso1(st, capa) ==
    IF AnalizarLanza(capa) THEN st
    ELSE LET res_capa == Analizar(capa) IN
         IF SaltarCapa(res_capa) THEN st
         ELSE LET area == FijarAreaTotal(st.res["area_total_m2"], res_capa)
                  afs == Get(res_capa, "afecciones", <<>>)
                  total_capa == Get(res_capa, "total_afectado_percent", 0)
              IN  IF afs = <<>>
                  THEN [st EXCEPT !.res["area_total_m2"] = area]
                  ELSE [ res |-> [st.res EXCEPT
                             !["area_total_m2"] = area,
                             !["afecciones_detectadas"] = TRUE,
                             !["detalle"] = AgregarDetallesArea(@, capa.nombre, afs)],
                         max_afeccion |-> IF total_capa > st.max_afeccion
                                          THEN total_capa ELSE st.max_afeccion ]

RECURSIVE BuclePaso1(_, _)
BuclePaso1(st, capas) ==
    IF capas = <<>> THEN st ELSE BuclePaso1(PasoCapaPaso1(st, Head(capas)), Tail(capas))

\* lines 342-395: the report of paso 1
AgregarPaso1(capas) ==
    IF ANALISIS_AFECCIONES_ACTIVO /\ capas # <<>>
    THEN LET st == BuclePaso1(InicioPaso1, capas)
         IN  [st.res EXCEPT
                 !["total"] = st.max_afeccion,
                 !["mensaje"] = IF DOMAIN st.res["detalle"] = {}
                                THEN "sin intersecciones" ELSE @]
    ELSE InicioPaso1.res

\* the handler's response when an exception reaches its outer except (556-565)
RespuestaError == [status |-> "error"]

\* lines 300-307 and 342-395: "exito, _ = ..." unpacks a tuple of two
Paso1Analizar(exito) ==
    LET devuelto == DescargarTodoCompleto(exito)
    IN  /\ pc = "inicio"
        /\ pc' = "paso1"
        /\ peticion' = [exito |-> exito]
        /\ informe' =
              IF Len(devuelto) # 2 THEN RespuestaError
              ELSE IF ~devuelto[1] THEN [status |-> "404"]
              ELSE AgregarPaso1(todas_capas)
        /\ UNCHANGED <<todas_capas, tabla>>
        /\ UNCHANGED <<ovvars, extvars>>

----------------------------------------------------------------------------
(* paso2_generar_pdf, main.py 568-693                                      *)

\* lines 598-666: the report, and the table pdf_gen.generar draws from it
Paso2GenerarPdf(incluir_afecciones, gml_existe) ==
    LET resultados_afecciones == IF incluir_afecciones /\ gml_existe
                                 THEN AgregarPdf(todas_capas)
                                 ELSE EmptyDict
    IN  /\ pc = "inicio"
        /\ pc' = "paso2"
        /\ peticion' = [incluir_afecciones |-> incluir_afecciones,
                        gml_existe |-> gml_existe]
        /\ informe' = resultados_afecciones
        /\ tabla' = Generar(resultados_afecciones, incluir_afecciones)
        /\ UNCHANGED todas_capas
        /\ UNCHANGED <<ovvars, extvars>>

----------------------------------------------------------------------------
(* analizar_afecciones_manual, main.py 1053-1140                           *)

AFECCIONES_TOTALES == "afecciones_totales.gpkg"

\* lines 1084-1090
InicioManual(todas) ==
    [ res |-> [afecciones |-> <<>>, total_afectado_percent |-> 0,
               afecciones_detectadas |-> FALSE, mensaje |-> Len(todas)],
      max_pct |-> 0 ]

\* lines 1099-1101: the layer's classes, renamed "<layer> - <class>"
RECURSIVE Renombradas(_, _)
Renombradas(nombre_capa, afecciones) ==
    IF afecciones = <<>> THEN <<>>
    ELSE <<[Head(afecciones) EXCEPT
               !["clase"] = Clave(nombre_capa, Get(Head(afecciones), "clase", "General"))]>>
         \o Renombradas(nombre_capa, Tail(afecciones))

\* lines 1093-1109: the body of the loop for one layer
PasoCapaManual(st, capa) ==
    IF AnalizarLanza(capa) THEN st
    ELSE LET r == Analizar(capa) IN
         IF ~Get(r, "afecciones_detectadas", FALSE) THEN st
         ELSE LET pct == Get(r, "total_afectado_percent", 0)
                  res1 == [st.res EXCEPT
                              !["afecciones_detectadas"] = TRUE,
                              !["afecciones"] =
                                  @ \o Renombradas(capa.nombre, Get(r, "afecciones", <<>>))]
              IN  IF pct > st.max_pct
                  THEN [ res |-> Put(res1, "area_afectada_m2", Get(r, "total_afectado_m2", 0)),
                         max_pct |-> pct ]
                  ELSE [ res |-> res1, max_pct |-> st.max_pct ]

RECURSIVE BucleManual(_, _)
BucleManual(st, capas) ==
    IF capas = <<>> THEN st ELSE BucleManual(PasoCapaManual(st, Head(capas)), Tail(capas))

\* lines 1083-1112: the result of "afecciones_totales.gpkg"
AgregarManual(todas) ==
    LET st == BucleManual(InicioManual(todas), todas)
    IN  [st.res EXCEPT !["total_afectado_percent"] = st.max_pct]

\* analyzer.analizar(capa_input = a name): the layer of that name
CapasDeNombre(todas, capa_name) == SelectSeq(todas, LAMBDA c : c.nombre = capa_name)

\* lines 1080-1124: the entry written for one requested name
EntradaManual(todas, capa_name) ==
    IF capa_name = AFECCIONES_TOTALES
    THEN <<"Afecciones Totales (System)", AgregarManual(todas)>>
    ELSE LET halladas == CapasDeNombre(todas, capa_name)
         IN  IF halladas = <<>> THEN <<capa_name, [error |-> "capa no disponible"]>>
             ELSE IF AnalizarLanza(Head(halladas)) THEN <<capa_name, [error |-> "excepcion"]>>
             ELSE <<capa_name, Analizar(Head(halladas))>>

RECURSIVE BuclePedidas(_, _, _)
BuclePedidas(acc, todas, pedidas) ==
    IF pedidas = <<>> THEN acc
    ELSE LET e == EntradaManual(todas, Head(pedidas))
         IN  BuclePedidas(Put(acc, e[1], e[2]), todas, Tail(pedidas))

NombresPedidos == Nombres \cup {AFECCIONES_TOTALES}

AnalizarAfeccionesManual(pedidas) ==
    /\ pc = "inicio"
    /\ pc' = "manual"
    /\ peticion' = [capas_list |-> pedidas]
    /\ informe' = BuclePedidas(EmptyDict, todas_capas, pedidas)
    /\ UNCHANGED <<todas_capas, tabla>>
    /\ UNCHANGED <<ovvars, extvars>>

\* the response is returned: nothing of the request outlives it
Responder ==
    /\ pc # "inicio"
    /\ pc' = "inicio"
    /\ peticion' = EmptyDict
    /\ informe' = EmptyDict
    /\ tabla' = SinTabla
    /\ UNCHANGED todas_capas
    /\ UNCHANGED <<ovvars, extvars>>

----------------------------------------------------------------------------
(* The aggregation specification *)

InitAgg ==
    /\ OtrosEnReposo
    /\ todas_capas \in SeqsUpTo(CapasPosibles, MaxCapas)
    /\ pc = "inicio"
    /\ peticion = EmptyDict
    /\ informe = EmptyDict
    /\ tabla = SinTabla
    /\ OverlayEnReposo
    /\ EstiloEnReposo
    /\ CacheEnReposo
    /\ RasterEnReposo

NextAgg ==
    \/ \E exito \in BOOLEAN : Paso1Analizar(exito)
    \/ \E incluir_afecciones \in BOOLEAN, gml_existe \in BOOLEAN :
           Paso2GenerarPdf(incluir_afecciones, gml_existe)
    \/ \E pedidas \in SeqsUpTo(NombresPedidos, MaxPedidas) \ {<<>>} :
           AnalizarAfeccionesManual(pedidas)
    \/ Responder

SpecAgg == InitAgg /\ [][NextAgg]_vars

----------------------------------------------------------------------------
(* Properties of the aggregation (SpecAgg)                                 *)

Indices == 1..Len(todas_capas)

\* paso2_generar_pdf has run its aggregation loop
Agregado2 == pc = "paso2" /\ peticion.incluir_afecciones /\ peticion.gml_existe

\* the manual handler has aggregated every layer of the system
TOTALES == "Afecciones Totales (System)"

AgregadoManual == pc = "manual" /\ TOTALES \in DOMAIN informe

NoFallidas(capas) == SelectSeq(capas, Evaluada)

\* the total percentage of every layer that was evaluated
PorcentajesEvaluados ==
    { Analizar(todas_capas[i])["total_afectado_percent"] :
          i \in {j \in Indices : Evaluada(todas_capas[j])} }

CapaGeneral(nombre, area) ==
    [nombre |-> nombre, estado |-> "ok", area_parcela |-> 1000,
     solapes |-> <<[clase |-> "General", area |-> area]>>]

\* the scenario of claim C2: a parcel of 1000 m2, 102 m2 in "Zona Inundable"
\* and 53 m2 in "Espacio Natural"
EscenarioC2 ==
    /\ Agregado2
    /\ todas_capas = <<CapaGeneral("Zona Inundable", 102), CapaGeneral("Espacio Natural", 53)>>

\* the layers that reach the report: evaluated, with an intersection
Detectada(capa) == Evaluada(capa) /\ Analizar(capa)["afecciones_detectadas"]

AfsDe(i) == Analizar(todas_capas[i])["afecciones"]

\* <<layer position, class position>> of every class entry that reaches the report
Entradas ==
    UNION { {<<i, m>> : m \in 1..Len(AfsDe(i))} :
                i \in {j \in Indices : Detectada(todas_capas[j])} }

ClaveDe(e) == Clave(todas_capas[e[1]].nombre, AfsDe(e[1])[e[2]].clase)

ClavesEsperadas == { ClaveDe(e) : e \in Entradas }

\* e is written after f by the loops of lines 617 and 635
Posterior(e, f) == e[1] > f[1] \/ (e[1] = f[1] /\ e[2] >= f[2])

\* the last class entry written under key k
UltimaEntrada(k) ==
    LET A == {e \in Entradas : ClaveDe(e) = k}
    IN  CHOOSE e \in A : \A f \in A : Posterior(e, f)

\* the first layer, in order, whose percentage is the maximum
PrimeraMaxima ==
    LET m == MaxOf({Analizar(todas_capas[i])["total_afectado_percent"] :
                        i \in {j \in Indices : Detectada(todas_capas[j])}} \cup {0})
        C == {i \in Indices : /\ Detectada(todas_capas[i])
                              /\ Analizar(todas_capas[i])["total_afectado_percent"] = m
                              /\ m > 0}
    IN  IF C = {} THEN 0 ELSE CHOOSE i \in C : \A j \in C : i <= j

TieneEntrada(detalle, nombre) == \E c \in Clases : Clave(nombre, c) \in DOMAIN detalle

\* C3: detail has an entry for every layer that was evaluated, those with
\* zero affection included, and none for a layer that failed.
C3_EntradaPorCapaEvaluada ==
    Agregado2 =>
        \A i \in Indices :
            /\ Evaluada(todas_capas[i]) => TieneEntrada(informe["detalle"], todas_capas[i].nombre)
            /\ (\A j \in Indices : todas_capas[j].nombre = todas_capas[i].nombre
                                       => ~Evaluada(todas_capas[j]))
                   => ~TieneEntrada(informe["detalle"], todas_capas[i].nombre)

\* the same layer file, had it been evaluated with no intersection
ComoSinAfeccion(capa) == [capa EXCEPT !.estado = "ok", !.solapes = <<>>]

\* C4: the report tells a layer whose analysis failed from the same layer
\* evaluated with zero affection.
C4_FalloDistinguible ==
    Agregado2 =>
        \A i \in Indices :
            ~Evaluada(todas_capas[i])
                => informe # AgregarPdf([todas_capas EXCEPT ![i] = ComoSinAfeccion(@)])

\* the result-bearing fields of the manual aggregate (not the message, which
\* counts the files listed)
SinMensaje(res) == [k \in DOMAIN res \ {"mensaje"} |-> res[k]]

C6_AreaPrimeraEvaluada ==
    (Agregado2 /\ NoFallidas(todas_capas) # <<>>)
        => informe["area_total_m2"] = Head(NoFallidas(todas_capas)).area_parcela

\* the keys AfeccionesPDF reads from the report
CamposLeidos == {"total", "detalle", "area_parcela_m2", "area_afectada_m2"}

\* C7: the report handed to the PDF generator has the fields under the names
\* the generator reads, and the area column of the table is computed from the
\* parcel area of the report.
C7_CamposDelConsumidor ==
    (Agregado2 /\ tabla.dibujada /\ DOMAIN informe["detalle"] # {}) =>
        /\ CamposLeidos \subseteq DOMAIN informe
        /\ tabla.area_total = informe["area_total_m2"]
        /\ \A k \in DOMAIN tabla.filas :
               tabla.filas[k].area = (informe["detalle"][k] * informe["area_total_m2"]) \div 100

----------------------------------------------------------------------------
(* Geometry of the overlay.  The plane is cut into cells that lie apart; a *)
(* polygon is the set of cells it covers and its area is the sum of their  *)
(* areas.  A geometry without area (a line) lies in cells and covers none. *)

\* area of each cell, in m2
AreaDeCelda == <<600, 400, 1, 9999>>

Celdas == DOMAIN AreaDeCelda

RECURSIVE Area(_)
Area(celdas) ==
    IF celdas = {} THEN 0
    ELSE LET c == CHOOSE x \in celdas : TRUE
         IN  AreaDeCelda[c] + Area(celdas \ {c})

\* a null attribute value of a classification column
NULO == 0

\* a null value of a text column
NA == "<NA>"

\* Python's None
NINGUNO == "None"

(* A numpy float: finite (v, in hundredths), nan or inf.                   *)
Flotante(v) == [es |-> "finito", v |-> v]

NaN == [es |-> "nan", v |-> 0]

Inf == [es |-> "inf", v |-> 0]

\* (a / b) * 100 on numpy floats: a zero divisor yields nan or inf, not an exception
Dividir(a, b) ==
    IF b = 0 THEN (IF a = 0 THEN NaN ELSE Inf)
    ELSE Flotante((a * 10000) \div b)

\* str() of a classification code read as an integer
Str(c) == CASE c = 1 -> "1" [] c = 2 -> "2" [] c = 9 -> "9" [] OTHER -> "nan"

\* str() of a classification code read as a float: pandas reads an integer
\* column that holds nulls as float64
StrFlotante(c) == CASE c = 1 -> "1.0" [] c = 2 -> "2.0" [] c = 9 -> "9.0" [] OTHER -> "nan"

\* the files of datos_origen: name, extension, whether gpd.read_file reads it,
\* the cells its polygons cover, the cells a geometry without area lies in
ParcelasPosibles ==
    { [archivo |-> "a.gml", ext |-> ".gml", legible |-> TRUE, celdas |-> {1}, linea |-> {}],
      [archivo |-> "b.geojson", ext |-> ".geojson", legible |-> TRUE, celdas |-> {1, 2},
       linea |-> {}],
      [archivo |-> "c.gml", ext |-> ".gml", legible |-> TRUE, celdas |-> {3, 4}, linea |-> {}],
      [archivo |-> "eje.kml", ext |-> ".kml", legible |-> TRUE, celdas |-> {}, linea |-> {1}],
      [archivo |-> "mixta.kml", ext |-> ".kml", legible |-> TRUE, celdas |-> {1},
       linea |-> {2}],
      [archivo |-> "rota.shp", ext |-> ".shp", legible |-> FALSE, celdas |-> {}, linea |-> {}],
      [archivo |-> "leeme.txt", ext |-> ".txt", legible |-> FALSE, celdas |-> {},
       linea |-> {}] }

\* the features of a GPKG layer: the cells of each and its classification code
FeaturesPosibles ==
    { <<>>,
      <<[celdas |-> {1}, tipo |-> 1]>>,
      <<[celdas |-> {1}, tipo |-> 1], [celdas |-> {1}, tipo |-> 2]>>,
      <<[celdas |-> {2}, tipo |-> 9]>>,
      <<[celdas |-> {3}, tipo |-> 1]>>,
      <<[celdas |-> {1}, tipo |-> 1], [celdas |-> {2}, tipo |-> 2]>>,
      <<[celdas |-> {1, 2}, tipo |-> NULO], [celdas |-> {2}, tipo |-> 9]>> }

\* the legend CSV of a layer name: whether the file exists, whether
\* pd.read_csv reads it, whether it has no rows, its columns, the CAMPO_GPKG
\* and the color of its first row, its code -> etiqueta and code -> color
SinLeyenda ==
    [existe |-> FALSE, legible |-> FALSE, vacio |-> TRUE, columnas |-> {},
     CAMPO_GPKG |-> NINGUNO, color |-> NINGUNO, etiqueta |-> EmptyDict, colores |-> EmptyDict]

LeyendaCsv(columnas, campo, etiqueta) ==
    [existe |-> TRUE, legible |-> TRUE, vacio |-> FALSE, columnas |-> columnas,
     CAMPO_GPKG |-> campo, color |-> "red", etiqueta |-> etiqueta,
     colores |-> ("1" :> "red" @@ "2" :> "green")]

LeyendasPosibles ==
    { SinLeyenda,
      LeyendaCsv({"CAMPO_GPKG", "clase", "color", "etiqueta"}, "tipo",
                 "1" :> "Cauce" @@ "2" :> "Ribera"),
      LeyendaCsv({"CAMPO_GPKG", "clase", "color", "etiqueta"}, "tipo",
                 "1" :> "Cauce" @@ "2" :> "Cauce"),
      LeyendaCsv({"CAMPO_GPKG", "clase", "color"}, "uso", EmptyDict) }

\* one entry of capas_wms
CapaWms(gpkg, existe, legible, features, leyenda) ==
    [nombre |-> "Inundable", gpkg |-> gpkg, existe |-> existe, legible |-> legible,
     columnas |-> {"tipo"}, features |-> features, leyenda |-> leyenda]

CapasWmsPosibles ==
    { CapaWms("", FALSE, FALSE, <<>>, SinLeyenda),
      CapaWms("inundable.gpkg", FALSE, FALSE, <<>>, SinLeyenda),
      CapaWms("inundable.gpkg", TRUE, FALSE, <<>>, SinLeyenda) }
    \cup
    { CapaWms("inundable.gpkg", TRUE, TRUE, f, l) :
          f \in FeaturesPosibles, l \in LeyendasPosibles }

\* the classifications whose text contains "No Urbanizable", whatever the case
NoUrbanizables == {"Suelo No Urbanizable"}

\* the planning layer handed to calcular_porcentajes
PlaneamientosPosibles ==
    { [columnas |-> {"clasificacion"}, features |-> <<>>],
      [columnas |-> {}, features |-> <<[celdas |-> {1}]>>],
      [columnas |-> {"clasificacion"},
       features |-> <<[celdas |-> {1}, clasificacion |-> "Urbano"]>>],
      [columnas |-> {"clasificacion"},
       features |-> <<[celdas |-> {2}, clasificacion |-> NA]>>],
      [columnas |-> {"clasificacion", "ambito"},
       features |-> <<[celdas |-> {1}, clasificacion |-> "Urbano", ambito |-> NA],
                      [celdas |-> {2}, clasificacion |-> "Suelo No Urbanizable",
                       ambito |-> "Costas"]>>],
      [columnas |-> {"clasificacion", "ambito"},
       features |-> <<[celdas |-> {1}, clasificacion |-> "Suelo No Urbanizable",
                       ambito |-> NA],
                      [celdas |-> {1, 2}, clasificacion |-> "Suelo No Urbanizable",
                       ambito |-> "Costas"]>>] }

\* the sequences of at most n distinct elements of S (a directory listing)
SeqsDistintas(S, n) ==
    {s \in SeqsUpTo(S, n) : \A i, j \in DOMAIN s : i # j => s[i] # s[j]}

----------------------------------------------------------------------------
(* Bounds of the overlay *)

\* most files in datos_origen
MaxParcelas == 2

\* most entries of capas_wms
MaxCapasWms == 1

----------------------------------------------------------------------------
(* geopandas operations *)

\* GeoSeries.intersects
Intersecta(feature, parcela) ==
    feature.celdas \cap (parcela.celdas \cup parcela.linea) # {}

\* gpd.overlay raises NotImplementedError for a frame that mixes polygons with
\* lines
TiposMezclados(parcela) == parcela.celdas # {} /\ parcela.linea # {}

\* variant of the pre-filter that keeps only the features that share area
\* with the parcel
CapaFiltradaPorArea(features, parcela) ==
    SelectSeq(features, LAMBDA f : f.celdas \cap parcela.celdas # {})

\* capa[capa.intersects(geom_parcela_proj)]
CapaFiltrada(features, parcela) ==
    SelectSeq(features, LAMBDA f : Intersecta(f, parcela))

\* gpd.overlay(how="intersection"): one piece per feature that meets the
\* parcel, with the feature's attributes; keep_geom_type drops the pieces
\* that are not polygons
RECURSIVE Overlay(_, _, _)
Overlay(features, parcela, keep_geom_type) ==
    IF features = <<>> THEN <<>>
    ELSE LET f == Head(features)
             comun == f.celdas \cap parcela.celdas
             resto == Overlay(Tail(features), parcela, keep_geom_type)
         IN  IF comun # {} \/ (~keep_geom_type /\ Intersecta(f, parcela))
             THEN <<[area |-> Area(comun), atributos |-> f]>> \o resto
             ELSE resto

\* interseccion.area.sum()
RECURSIVE SumaAreas(_)
SumaAreas(interseccion) ==
    IF interseccion = <<>> THEN 0
    ELSE Head(interseccion).area + SumaAreas(Tail(interseccion))

\* the keys of a groupby, which come sorted
RECURSIVE Ordenados(_)
Ordenados(S) ==
    IF S = {} THEN <<>>
    ELSE LET m == CHOOSE x \in S : \A y \in S : x <= y
         IN  <<m>> \o Ordenados(S \ {m})

----------------------------------------------------------------------------
(* get_legend_styling, vector_analyzer.py 99-133                           *)

\* line 102
EstiloPorDefecto ==
    [unique |-> TRUE, color |-> "blue", field |-> NINGUNO, labels |-> EmptyDict]

\* lines 104-133, on what the CSV of the layer name holds
GetLegendStyling(leyenda) ==
    LET styling == EstiloPorDefecto
    IN  IF ~leyenda.existe THEN styling
        ELSE IF ~leyenda.legible THEN styling
        ELSE IF "CAMPO_GPKG" \in leyenda.columnas
        THEN IF leyenda.vacio THEN styling
             ELSE IF {"clasificacion", "clase", "clave"} \cap leyenda.columnas # {}
                     /\ "color" \in leyenda.columnas
             THEN Put([styling EXCEPT !.field = leyenda.CAMPO_GPKG,
                                      !.unique = FALSE,
                                      !.labels = IF "etiqueta" \in leyenda.columnas
                                                 THEN leyenda.etiqueta ELSE EmptyDict],
                      "colors", leyenda.colores)
             ELSE [styling EXCEPT !.field = leyenda.CAMPO_GPKG]
        ELSE IF ~leyenda.vacio /\ "color" \in leyenda.columnas
        THEN [styling EXCEPT !.color = leyenda.color]
        ELSE styling

----------------------------------------------------------------------------
(* procesar_parcelas, vector_analyzer.py 263-468                           *)

\* line 266
EsArchivoDeParcela(archivo) == archivo.ext \in {".shp", ".gml", ".geojson", ".json", ".kml"}

\* without the guard of line 310
PorcentajeTotalSinGuarda(interseccion, area_total_parcela_proj) ==
    Dividir(SumaAreas(interseccion), area_total_parcela_proj)

\* lines 309-311
PorcentajeTotal(interseccion, area_total_parcela_proj) ==
    IF interseccion = <<>> THEN Flotante(0)
    ELSE Dividir(SumaAreas(interseccion), area_total_parcela_proj)

\* the classification column of a layer comes as float64 when a feature of
\* the file has no value in it
ColumnaFlotante(features) == \E k \in DOMAIN features : features[k].tipo = NULO

\* line 330, str(clasificacion)
StrCodigo(clasificacion, flotante) ==
    IF flotante THEN StrFlotante(clasificacion) ELSE Str(clasificacion)

\* an unmapped code gets an empty etiqueta
EtiquetaSinRespaldo(labels, codigo) == Get(labels, codigo, "")

\* line 330: labels.get(str(clasificacion), str(clasificacion))
Etiqueta(labels, codigo) == Get(labels, codigo, codigo)

\* lines 325-329: the groups in key order, a later group overwriting the
\* entry of an earlier one with the same etiqueta
RECURSIVE DetallePorGrupo(_, _, _, _, _, _)
DetallePorGrupo(claves, interseccion, labels, flotante, area_total_parcela_proj, porcentaje_detalle) ==
    IF claves = <<>> THEN porcentaje_detalle
    ELSE LET clasificacion == Head(claves)
             grupo == SelectSeq(interseccion,
                                LAMBDA pieza : pieza.atributos.tipo = clasificacion)
             etiqueta == Etiqueta(labels, StrCodigo(clasificacion, flotante))
         IN  DetallePorGrupo(Tail(claves), interseccion, labels, flotante,
                 area_total_parcela_proj,
                 Put(porcentaje_detalle, etiqueta,
                     Dividir(SumaAreas(grupo), area_total_parcela_proj)))

\* lines 316-329; groupby leaves the null keys out
PorcentajeDetalle(interseccion, styling, columnas, flotante, area_total_parcela_proj) ==
    IF styling.field # NINGUNO /\ styling.field \in columnas
    THEN DetallePorGrupo(
             Ordenados({interseccion[n].atributos.tipo : n \in DOMAIN interseccion} \ {NULO}),
             interseccion, styling.labels, flotante, area_total_parcela_proj, EmptyDict)
    ELSE EmptyDict

\* lines 293-334, one layer: st holds capas_wms, resultados and what was printed
PasoCapaWms(st, parcela, i) ==
    LET capa_wms_config == st.capas_wms[i]
        area_total_parcela_proj == Area(parcela.celdas)
    IN  IF capa_wms_config["gpkg"] = "" THEN st
        ELSE IF ~capa_wms_config["existe"] THEN st
        ELSE IF ~capa_wms_config["legible"] \/ TiposMezclados(parcela)
        THEN [st EXCEPT !.impresos = @ \cup {<<"cruce", parcela.archivo, i>>}]
        ELSE LET capa_filtrada == CapaFiltrada(capa_wms_config["features"], parcela)
                 interseccion == Overlay(capa_filtrada, parcela, FALSE)
                 porcentaje_total == PorcentajeTotal(interseccion, area_total_parcela_proj)
                 styling == GetLegendStyling(capa_wms_config["leyenda"])
                 porcentaje_detalle ==
                     PorcentajeDetalle(interseccion, styling, capa_wms_config["columnas"],
                                       ColumnaFlotante(capa_wms_config["features"]),
                                       area_total_parcela_proj)
             IN  [st EXCEPT
                     !.resultados = Append(@, [parcela |-> parcela.archivo,
                                               capa |-> capa_wms_config["gpkg"],
                                               porcentaje |-> porcentaje_total]),
                     !.capas_wms[i] = Put(capa_wms_config, "porcentaje_detalle",
                                          porcentaje_detalle)]

RECURSIVE BucleCapasWms(_, _, _)
BucleCapasWms(st, parcela, i) ==
    IF i > Len(st.capas_wms) THEN st
    ELSE BucleCapasWms(PasoCapaWms(st, parcela, i), parcela, i + 1)

\* one turn of the loop of line 265: the next file of datos_origen
ProcesarParcela ==
    /\ pc_ov \in {"inicio", "parcelas"}
    /\ i_parcela < Len(parcelas_origen)
    /\ LET archivo_parcela == parcelas_origen[i_parcela + 1]
           st == IF ~EsArchivoDeParcela(archivo_parcela)
                 THEN [capas_wms |-> capas_wms, resultados |-> resultados,
                       impresos |-> impresos]
                 ELSE IF ~archivo_parcela.legible
                 THEN [capas_wms |-> capas_wms, resultados |-> resultados,
                       impresos |-> impresos \cup {<<"parcela", archivo_parcela.archivo, 0>>}]
                 ELSE BucleCapasWms([capas_wms |-> capas_wms, resultados |-> <<>>,
                                     impresos |-> impresos], archivo_parcela, 1)
       IN  /\ capas_wms' = st.capas_wms
           /\ resultados' = st.resultados
           /\ impresos' = st.impresos
    /\ i_parcela' = i_parcela + 1
    /\ pc_ov' = "parcelas"
    /\ UNCHANGED <<parcelas_origen, entrada_urbano, urbano>>
    /\ UNCHANGED <<aggvars, extvars>>

----------------------------------------------------------------------------
(* AnalisisUrbano.calcular_porcentajes, analisisurbano_mejorado.py 171-227 *)

\* lines 202-210
TipoSuelo(atributos, columnas) ==
    IF /\ "ambito" \in columnas
       /\ atributos.clasificacion \in NoUrbanizables
    THEN atributos.clasificacion \o " - " \o
             (IF atributos.ambito = NA THEN "" ELSE atributos.ambito)
    ELSE atributos.clasificacion

CalcularPorcentajesDe(gdf_parcela, gdf_planeamiento) ==
    LET interseccion == Overlay(gdf_planeamiento.features, gdf_parcela, TRUE)
    IN  IF TiposMezclados(gdf_parcela) THEN <<EmptyDict, EmptyDict>>
        ELSE IF interseccion = <<>> THEN <<EmptyDict, EmptyDict>>
        ELSE IF "clasificacion" \notin gdf_planeamiento.columnas
        THEN <<EmptyDict, EmptyDict>>
        ELSE LET tipo_suelo(n) ==
                     TipoSuelo(interseccion[n].atributos, gdf_planeamiento.columnas)
                 tipos == {tipo_suelo(n) : n \in DOMAIN interseccion} \ {NA}
                 resumen == [t \in tipos |->
                                SumSeq([n \in DOMAIN interseccion |->
                                           IF tipo_suelo(n) = t
                                           THEN interseccion[n].area ELSE 0])]
                 total_area == SumSeq([n \in DOMAIN interseccion |->
                                          IF tipo_suelo(n) = NA
                                          THEN 0 ELSE interseccion[n].area])
             IN  IF total_area = 0 THEN <<EmptyDict, EmptyDict>>
                 ELSE <<resumen, [t \in tipos |-> (resumen[t] * 10000) \div total_area]>>

CalcularPorcentajes ==
    /\ pc_ov = "inicio"
    /\ entrada_urbano # <<>>
    /\ urbano' = CalcularPorcentajesDe(entrada_urbano[1], entrada_urbano[2])
    /\ pc_ov' = "urbano"
    /\ UNCHANGED <<parcelas_origen, capas_wms, i_parcela, resultados, impresos,
                   entrada_urbano>>
    /\ UNCHANGED <<aggvars, extvars>>

----------------------------------------------------------------------------
(* The overlay specification *)

\* the REST handlers when only the overlay runs
AgregacionEnReposo ==
    /\ todas_capas = <<>>
    /\ pc = "inicio"
    /\ peticion = EmptyDict
    /\ informe = EmptyDict
    /\ tabla = SinTabla

\* the parcels that gpd.read_file loads
ParcelasCargadas == {p \in ParcelasPosibles : EsArchivoDeParcela(p) /\ p.legible}

InitOverlay ==
    /\ OtrosEnReposo
    /\ AgregacionEnReposo
    /\ EstiloEnReposo
    /\ CacheEnReposo
    /\ RasterEnReposo
    /\ pc_ov = "inicio"
    /\ i_parcela = 0
    /\ resultados = <<>>
    /\ impresos = {}
    /\ urbano = <<EmptyDict, EmptyDict>>
    /\ \/ /\ parcelas_origen \in SeqsDistintas(ParcelasPosibles, MaxParcelas)
          /\ capas_wms \in SeqsUpTo(CapasWmsPosibles, MaxCapasWms)
          /\ entrada_urbano = <<>>
       \/ /\ parcelas_origen = <<>>
          /\ capas_wms = <<>>
          /\ entrada_urbano \in ParcelasCargadas \X PlaneamientosPosibles

NextOverlay ==
    \/ ProcesarParcela
    \/ CalcularPorcentajes

SpecOverlay == InitOverlay /\ [][NextOverlay]_vars

----------------------------------------------------------------------------
(* Properties of the overlay (SpecOverlay)                                 *)

ParcelaDe(archivo) == CHOOSE p \in ParcelasPosibles : p.archivo = archivo

\* the entries of capas_wms that yield a row, in order
Evaluables ==
    SelectSeq(capas_wms,
              LAMBDA c : c["gpkg"] # "" /\ c["existe"] /\ c["legible"])

\* the parcel and the layer of the n-th row of resultados
ParcelaDeFila(n) == ParcelaDe(resultados[n].parcela)

CapaDeFila(n) == Evaluables[n]

\* sum of the areas in which the features of a layer overlap a parcel
RECURSIVE SumaSolapes(_, _)
SumaSolapes(features, parcela) ==
    IF features = <<>> THEN 0
    ELSE Area(Head(features).celdas \cap parcela.celdas) + SumaSolapes(Tail(features), parcela)

\* C8: for a parcel of positive area the total percent of every row is the
\* sum of the overlap areas over the parcel area, times 100, clamped to
\* [0, 100]; no row has a total percent above 100 or below 0.
C8_TotalAcotado ==
    \A n \in DOMAIN resultados :
        LET area == Area(ParcelaDeFila(n).celdas)
            fila == resultados[n]
        IN  area > 0 =>
                /\ fila.porcentaje.es = "finito"
                /\ fila.porcentaje.v \in 0..10000
                /\ fila.porcentaje.v =
                       Clamp((SumaSolapes(CapaDeFila(n)["features"], ParcelaDeFila(n)) * 10000)
                                 \div area)

SinInterseccion(features, parcela) ==
    \A k \in DOMAIN features : ~Intersecta(features[k], parcela)

\* the last file of datos_origen gone through was loaded as a parcel
UltimaCargada ==
    /\ pc_ov = "parcelas"
    /\ parcelas_origen[i_parcela] \in ParcelasCargadas

C10_AreaError ==
    \A n \in DOMAIN resultados : Area(ParcelaDeFila(n).celdas) > 0

\* the layer of the n-th row has a classification field that its GPKG holds
ConCampo(n) ==
    LET styling == GetLegendStyling(CapaDeFila(n)["leyenda"])
    IN  styling.field # NINGUNO /\ styling.field \in CapaDeFila(n)["columnas"]

\* the per-class detail stored for the layer of the n-th row
DetalleDeFila(n) == CapaDeFila(n)["porcentaje_detalle"]

\* what gpd.overlay yields for the parcel and the layer of the n-th row
InterseccionDeFila(n) ==
    Overlay(CapaFiltrada(CapaDeFila(n)["features"], ParcelaDeFila(n)), ParcelaDeFila(n), FALSE)

RECURSIVE SumaDetalle(_, _)
SumaDetalle(detalle, etiquetas) ==
    IF etiquetas = {} THEN 0
    ELSE LET e == CHOOSE x \in etiquetas : TRUE
         IN  detalle[e].v + SumaDetalle(detalle, etiquetas \ {e})

\* C11: for a layer with a valid classification field the per-class entries
\* add up to the total of the row, also when two codes share a label and when
\* some intersected features have no classification value.
C11_SumaPorClase ==
    \A n \in DOMAIN resultados :
        (ConCampo(n) /\ resultados[n].porcentaje.es = "finito") =>
            /\ \A e \in DOMAIN DetalleDeFila(n) : DetalleDeFila(n)[e].es = "finito"
            /\ SumaDetalle(DetalleDeFila(n), DOMAIN DetalleDeFila(n)) = resultados[n].porcentaje.v

\* C12: the per-class detail holds a class if and only if its percent is
\* strictly above the materiality threshold of 0.01 %; a class at exactly
\* 0.01 % is left out.
C12_Materialidad ==
    \A n \in DOMAIN resultados :
        ConCampo(n) =>
            \A e \in DOMAIN DetalleDeFila(n) :
                DetalleDeFila(n)[e].es = "finito" => DetalleDeFila(n)[e].v > UmbralMaterialidad

\* C13: without a classification field the per-class detail is the single
\* group "General" holding the full total of the layer.
C13_GrupoGeneral ==
    \A n \in DOMAIN resultados :
        (~ConCampo(n) /\ resultados[n].porcentaje.es = "finito" /\ resultados[n].porcentaje.v > 0)
            => DetalleDeFila(n) = ("General" :> resultados[n].porcentaje)

\* the classification codes met in the intersection of the n-th row
CodigosDeFila(n) ==
    {InterseccionDeFila(n)[k].atributos.tipo : k \in DOMAIN InterseccionDeFila(n)} \ {NULO}

\* str() of a code of the layer of the n-th row
StrDeFila(n, c) == StrCodigo(c, ColumnaFlotante(CapaDeFila(n)["features"]))

\* C14: a classification code without an entry in the label mapping is
\* reported under its raw code rendered as a string, with the percent of its
\* group; it raises nothing and the class is not dropped.
C14_CodigoSinEtiqueta ==
    /\ \A n \in DOMAIN resultados :
           ConCampo(n) =>
               \A c \in CodigosDeFila(n) :
                   LET labels == GetLegendStyling(CapaDeFila(n)["leyenda"]).labels
                       grupo == SelectSeq(InterseccionDeFila(n),
                                          LAMBDA pieza : pieza.atributos.tipo = c)
                   IN  StrDeFila(n, c) \notin DOMAIN labels =>
                           /\ StrDeFila(n, c) \in DOMAIN DetalleDeFila(n)
                           /\ DetalleDeFila(n)[StrDeFila(n, c)] =
                                  Dividir(SumaAreas(grupo), Area(ParcelaDeFila(n).celdas))
    /\ \A m \in impresos :
           m[1] = "cruce" =>
               ~capas_wms[m[3]]["legible"] \/ TiposMezclados(ParcelaDe(m[2]))

\* a legend that maps other codes met the code 9 and the detail holds "9"
C14_Witness ==
    \E n \in DOMAIN resultados :
        /\ ConCampo(n)
        /\ GetLegendStyling(CapaDeFila(n)["leyenda"]).labels # EmptyDict
        /\ 9 \in CodigosDeFila(n)
        /\ "9" \in DOMAIN DetalleDeFila(n)
        /\ DetalleDeFila(n)["9"].v > 0

----------------------------------------------------------------------------
(* Resolving the styling of a layer name (SpecEstilo)                      *)
(* get_legend_styling, vector_analyzer.py 99-133                           *)

\* the layer names asked for
NombresDeCapa == {"Inundable", "INUNDABLE", "inundable", "Costas", "costas"}

\* hands the name on as it is written
LowerIdentidad(nombre) == nombre

\* str.lower()
Lower(nombre) ==
    CASE nombre \in {"Inundable", "INUNDABLE", "inundable"} -> "inundable"
      [] nombre \in {"Costas", "costas"} -> "costas"
      [] OTHER -> nombre

\* the files capas/wms/leyenda_<stem>.csv that may exist
StemsDeLeyenda == {"inundable", "costas"}

\* what a legend CSV may hold
LeyendasCsv ==
    (LeyendasPosibles \ {SinLeyenda})
    \cup
    { [LeyendaCsv({"CAMPO_GPKG", "clase", "color", "etiqueta"}, "tipo", EmptyDict)
          EXCEPT !.legible = FALSE],
      [LeyendaCsv({"CAMPO_GPKG", "clase", "color", "etiqueta"}, "tipo", EmptyDict)
          EXCEPT !.vacio = TRUE],
      LeyendaCsv({"color"}, NINGUNO, EmptyDict),
      LeyendaCsv({"CAMPO_GPKG"}, "tipo", EmptyDict) }

\* the directories capas/wms that may be met
DirectoriosDeLeyendas ==
    UNION { [stems -> LeyendasCsv] : stems \in SUBSET StemsDeLeyenda }

\* line 101 and the os.path.exists of line 104
LeyendaDe(csvs, capa_nombre) == Get(csvs, Lower(capa_nombre), SinLeyenda)

\* get_legend_styling(capa_nombre)
GetLegendStylingDe(csvs, capa_nombre) == GetLegendStyling(LeyendaDe(csvs, capa_nombre))

ResolverEstilo(capa_nombre) ==
    /\ estilos' = Put(estilos, capa_nombre, GetLegendStylingDe(leyendas_csv, capa_nombre))
    /\ UNCHANGED leyendas_csv
    /\ UNCHANGED <<aggvars, ovvars, cachevars, rastervars, otrosvars>>

InitEstilo ==
    /\ OtrosEnReposo
    /\ AgregacionEnReposo
    /\ OverlayEnReposo
    /\ CacheEnReposo
    /\ RasterEnReposo
    /\ leyendas_csv \in DirectoriosDeLeyendas
    /\ estilos = EmptyDict

NextEstilo == \E capa_nombre \in NombresDeCapa : ResolverEstilo(capa_nombre)

SpecEstilo == InitEstilo /\ [][NextEstilo]_vars

\* the layer names that are the same name written in different letter case
ClasesDeNombre == {{"Inundable", "INUNDABLE", "inundable"}, {"Costas", "costas"}}

SoloDifierenEnCaja(n1, n2) == \E clase \in ClasesDeNombre : {n1, n2} \subseteq clase

\* the legend of the name is missing or cannot be processed
SinLeyendaUtil(capa_nombre) ==
    \A stem \in DOMAIN leyendas_csv :
        SoloDifierenEnCaja(stem, capa_nombre) =>
            \/ ~leyendas_csv[stem].legible
            \/ ("CAMPO_GPKG" \in leyendas_csv[stem].columnas /\ leyendas_csv[stem].vacio)

\* C15: names that differ only in letter case resolve to the same styling;
\* when the name has no legend, or its legend cannot be processed, the styling
\* returned is exactly the default one (no field, empty label mapping), and no
\* styling without a field carries labels.
C15_EstiloPorNombre ==
    /\ \A n1 \in DOMAIN estilos, n2 \in DOMAIN estilos :
           SoloDifierenEnCaja(n1, n2) => estilos[n1] = estilos[n2]
    /\ \A n \in DOMAIN estilos :
           /\ SinLeyendaUtil(n) => estilos[n] = EstiloPorDefecto
           /\ estilos[n].field = NINGUNO => estilos[n].labels = EmptyDict

\* "Inundable" and "INUNDABLE" got the same styling with a field, and a name
\* whose legend cannot be read got the default
C15_Witness ==
    /\ {"Inundable", "INUNDABLE", "costas"} \subseteq DOMAIN estilos
    /\ estilos["Inundable"].field = "tipo"
    /\ estilos["INUNDABLE"] = estilos["Inundable"]
    /\ "costas" \in DOMAIN leyendas_csv
    /\ ~leyendas_csv["costas"].legible
    /\ estilos["costas"] = EstiloPorDefecto

(***************************************************************************)
(* The WFS download cache of AnalisisUrbano (analisisurbano_mejorado.py):  *)
(* descargar_capa_wfs looks the key up, downloads on a miss and stores the *)
(* layer; limpiar_cache empties the cache.  Callers are threads that share *)
(* one AnalisisUrbano; a call is three steps, the look-up, the blocking    *)
(* download and the insertion, and no lock is held between them.           *)
(***************************************************************************)

\* number of threads that call descargar_capa_wfs on the same instance
NHilos == 2

Hilos == 1..NHilos

\* self.wfs_carm_url, shortened
BaseUrl == "wfs"

Typenames == {"planeamiento", "zonas"}

\* the data a typename can serve: it changes when the publisher updates it
Versiones == {"v1", "v2"}

CacheKey(base_url, typename) == base_url \o "_" \o typename

\* the GeoDataFrame read from a response
Gdf(typename, version) == [typename |-> typename, version |-> version]

HiloEnReposo ==
    [pc |-> "reposo", typename |-> NINGUNO, use_cache |-> FALSE, gdf |-> NINGUNO]

\* adds an element to the set kept under a key
Anotar(d, k, v) == Put(d, k, Get(d, k, {}) \cup {v})

\* line 119: cache_key in self._wfs_cache
EnCache(cache, cache_key) == cache_key \in DOMAIN cache

\* lines 116-121: the look-up; a hit returns the cached layer, a miss goes on
\* to download
Llamar(t, typename, use_cache) ==
    LET cache_key == CacheKey(BaseUrl, typename)
    IN  /\ hilos[t].pc = "reposo"
        /\ IF use_cache /\ EnCache(wfs_cache, cache_key)
           THEN /\ entregas' = Anotar(entregas, cache_key, wfs_cache[cache_key])
                /\ UNCHANGED hilos
           ELSE /\ hilos' = [hilos EXCEPT ![t] =
                       [pc |-> "descargando", typename |-> typename,
                        use_cache |-> use_cache, gdf |-> NINGUNO]]
                /\ UNCHANGED entregas
        /\ UNCHANGED <<servidor_wfs, wfs_cache, poblados>>
        /\ UNCHANGED <<aggvars, ovvars, estvars, rastervars, otrosvars>>

\* lines 123-155: the request and the reading of the response; a network
\* error, an empty layer or a missing field raises and the call ends
Descargar(t, exito) ==
    /\ hilos[t].pc = "descargando"
    /\ hilos' = [hilos EXCEPT ![t] =
           IF exito
           THEN [pc |-> "descargado", typename |-> @.typename,
                 use_cache |-> @.use_cache,
                 gdf |-> Gdf(@.typename, servidor_wfs[@.typename])]
           ELSE HiloEnReposo]
    /\ UNCHANGED <<servidor_wfs, wfs_cache, poblados, entregas>>
    /\ UNCHANGED <<aggvars, ovvars, estvars, rastervars, otrosvars>>

\* lines 157-162: the insertion and the return of the downloaded layer
Guardar(t) ==
    LET h == hilos[t]
        cache_key == CacheKey(BaseUrl, h.typename)
    IN  /\ h.pc = "descargado"
        /\ IF h.use_cache
           THEN /\ wfs_cache' = Put(wfs_cache, cache_key, h.gdf)
                /\ poblados' = Put(poblados, cache_key, Get(poblados, cache_key, 0) + 1)
                /\ entregas' = Anotar(entregas, cache_key, h.gdf)
           ELSE UNCHANGED <<wfs_cache, poblados, entregas>>
        /\ hilos' = [hilos EXCEPT ![t] = HiloEnReposo]
        /\ UNCHANGED servidor_wfs
        /\ UNCHANGED <<aggvars, ovvars, estvars, rastervars, otrosvars>>

\* lines 555-559; the counts of insertions and the layers handed out are kept
\* per life of the cache, so they start again with it
LimpiarCache ==
    /\ wfs_cache' = EmptyDict
    /\ poblados' = EmptyDict
    /\ entregas' = EmptyDict
    /\ UNCHANGED <<servidor_wfs, hilos>>
    /\ UNCHANGED <<aggvars, ovvars, estvars, rastervars, otrosvars>>

\* the publisher replaces the data of a typename
PublicarCapa(typename, version) ==
    /\ servidor_wfs[typename] # version
    /\ servidor_wfs' = [servidor_wfs EXCEPT ![typename] = version]
    /\ UNCHANGED <<wfs_cache, hilos, poblados, entregas>>
    /\ UNCHANGED <<aggvars, ovvars, estvars, rastervars, otrosvars>>

InitCache ==
    /\ OtrosEnReposo
    /\ AgregacionEnReposo
    /\ OverlayEnReposo
    /\ EstiloEnReposo
    /\ RasterEnReposo
    /\ servidor_wfs \in [Typenames -> Versiones]
    /\ wfs_cache = EmptyDict
    /\ hilos = [t \in Hilos |-> HiloEnReposo]
    /\ poblados = EmptyDict
    /\ entregas = EmptyDict

NextCache ==
    \/ \E t \in Hilos, typename \in Typenames, use_cache \in BOOLEAN :
           Llamar(t, typename, use_cache)
    \/ \E t \in Hilos, exito \in BOOLEAN : Descargar(t, exito)
    \/ \E t \in Hilos : Guardar(t)
    \/ LimpiarCache
    \/ \E typename \in Typenames, version \in Versiones :
           PublicarCapa(typename, version)

SpecCache == InitCache /\ [][NextCache]_vars

\* C16: between two clearings of the cache a key is populated at most once,
\* whatever the interleaving of the callers that find it missing, and every
\* caller that uses the cache is handed the same layer for the key.
C16_PobladoUnaVez ==
    /\ \A cache_key \in DOMAIN poblados : poblados[cache_key] <= 1
    /\ \A cache_key \in DOMAIN entregas : Cardinality(entregas[cache_key]) <= 1

\* C17: once a key has an entry, no step mutates, replaces or removes it:
\* the key stays in the cache with the same layer.
C17_EntradaEstable ==
    [][\A cache_key \in DOMAIN wfs_cache :
           /\ cache_key \in DOMAIN wfs_cache'
           /\ wfs_cache'[cache_key] = wfs_cache[cache_key]]_vars

(***************************************************************************)
(* The raster estimator, calcular_porcentaje_pixeles of                    *)
(* catastro_downloader.py.  Coordinates are integers of a fine grid, an    *)
(* image is its size and its rows of RGBA pixels, a polygon is the         *)
(* sequence of its vertices (convex, counter-clockwise), and the result is *)
(* in hundredths of a percent.                                             *)
(***************************************************************************)

\* the default of the parameter umbral
UmbralPorDefecto == 250

UmbralesPosibles == {UmbralPorDefecto, 128}

Blanco == <<255, 255, 255, 255>>
CasiBlanco == <<251, 250, 250, 255>>
Gris250 == <<250, 250, 250, 255>>
Gris249 == <<249, 249, 249, 255>>
Gris128 == <<128, 128, 128, 255>>
Azul == <<0, 0, 255, 255>>
Transparente == <<0, 0, 0, 0>>

\* PIL's conversion of an RGBA pixel to mode "L": the ITU-R 601 luma in
\* fixed point, rounded; the alpha band is dropped
ConvertL(rgba) ==
    (rgba[1] * 19595 + rgba[2] * 38470 + rgba[3] * 7471 + 32768) \div 65536

Imagen(width, height, filas) ==
    [es_none |-> FALSE, size |-> <<width, height>>, filas |-> filas]

\* no image
ImagenNone == [es_none |-> TRUE, size |-> <<0, 0>>, filas |-> <<>>]

Uniforme(color) == Imagen(3, 3, [i \in 1..3 |-> [j \in 1..3 |-> color]])

\* the overlays handed to the estimator
ImagenesPosibles ==
    {Uniforme(color) :
        color \in {Blanco, Gris250, Gris249, Gris128, Azul, Transparente}}
    \cup {Imagen(3, 3, << <<Azul, Blanco, Gris250>>,
                          <<Blanco, Gris249, CasiBlanco>>,
                          <<Gris128, Azul, Blanco>> >>),
          Imagen(3, 3, << <<Blanco, Blanco, Azul>>,
                          <<Blanco, Gris250, Blanco>>,
                          <<Blanco, Blanco, Blanco>> >>),
          Imagen(2, 3, << <<Azul, Blanco>>,
                          <<Gris249, Gris250>>,
                          <<Transparente, Gris128>> >>),
          Imagen(1, 1, << <<Azul>> >>),
          ImagenNone}

\* a shapely Polygon by its vertices; without vertices it is the empty polygon
Poligono(vertices) == [es_none |-> FALSE, vertices |-> vertices]

\* no geometry
GeometriaNone == [es_none |-> TRUE, vertices |-> <<>>]

\* the parcel geometries handed to the estimator
GeometriasPosibles ==
    {GeometriaNone,
     Poligono(<<>>),
     Poligono(<< <<0, 0>>, <<4, 0>>, <<4, 4>>, <<0, 4>> >>),
     Poligono(<< <<0, 0>>, <<6, 0>>, <<0, 6>> >>),
     Poligono(<< <<2, 2>>, <<4, 2>>, <<4, 4>>, <<2, 4>> >>),
     Poligono(<< <<10, 10>>, <<12, 10>>, <<12, 12>>, <<10, 12>> >>)}

\* bbox_wgs84 after split(","): the fields of the string
BboxPosibles ==
    {<<"1", "1", "3", "3">>, <<"0", "0", "4", "4">>, <<"1", "1", "3">>,
     <<"1", "1", "x", "3">>}

\* float() of a field, for the fields it accepts
Float == ("0" :> 0) @@ ("1" :> 1) @@ ("3" :> 3) @@ ("4" :> 4)

\* line 201: the four numbers of the string
LeerBbox(bbox_wgs84) == [k \in 1..4 |-> Float[bbox_wgs84[k]]]

\* not parcela_geom: None and the empty polygon are false
SinGeometria(parcela_geom) ==
    \/ parcela_geom.es_none
    \/ parcela_geom.vertices = <<>>

\* lines 200-201 raise: the image has no size, the string has not four
\* fields, or float() rejects a field
FallaLectura(capa_img, bbox_wgs84) ==
    \/ capa_img.es_none
    \/ Len(bbox_wgs84) # 4
    \/ \E k \in 1..Len(bbox_wgs84) : bbox_wgs84[k] \notin DOMAIN Float

\* np.linspace(desde, hasta, num)[k], k from 0
Linspace(desde, hasta, num, k) ==
    IF num = 1 THEN desde ELSE desde + (k * (hasta - desde)) \div (num - 1)

\* the coordinates of the pixel of row i and column j (from 1): xs runs from
\* lon_min to lon_max and ys from lat_max down to lat_min
PuntoDePixel(capa_img, bbox, i, j) ==
    <<Linspace(bbox[1], bbox[3], capa_img.size[1], j - 1),
      Linspace(bbox[4], bbox[2], capa_img.size[2], i - 1)>>

MinDe(S) == CHOOSE x \in S : \A y \in S : x <= y

MaxDe(S) == CHOOSE x \in S : \A y \in S : x >= y

\* parcela_geom.bounds: (minx, miny, maxx, maxy)
Bounds(parcela_geom) ==
    LET xs == {parcela_geom.vertices[k][1] : k \in DOMAIN parcela_geom.vertices}
        ys == {parcela_geom.vertices[k][2] : k \in DOMAIN parcela_geom.vertices}
    IN  <<MinDe(xs), MinDe(ys), MaxDe(xs), MaxDe(ys)>>

\* line 221, the quick filter: the bounds include their border
EnBounds(parcela_geom, punto) ==
    LET b == Bounds(parcela_geom)
    IN  /\ b[1] <= punto[1] /\ punto[1] <= b[3]
        /\ b[2] <= punto[2] /\ punto[2] <= b[4]

\* on which side of the edge a-b the point lies
Cruz(a, b, punto) ==
    (b[1] - a[1]) * (punto[2] - a[2]) - (b[2] - a[2]) * (punto[1] - a[1])

\* parcela_geom.contains(Point): the interior, without the border
Contains(parcela_geom, punto) ==
    LET v == parcela_geom.vertices
        n == Len(v)
    IN  \A k \in 1..n : Cruz(v[k], v[(k % n) + 1], punto) > 0

\* lines 216-223: the pixels whose point passes both tests
Mask(parcela_geom, capa_img, bbox) ==
    {ij \in (1..capa_img.size[2]) \X (1..capa_img.size[1]) :
        LET punto == PuntoDePixel(capa_img, bbox, ij[1], ij[2])
        IN  /\ EnBounds(parcela_geom, punto)
            /\ Contains(parcela_geom, punto)}

\* variant of the comparison that includes the threshold
EsAfectadoInclusivo(intensidad, umbral) == intensidad <= umbral

\* line 234: arr_masked < umbral
EsAfectado(intensidad, umbral) == intensidad < umbral

\* line 226: arr = np.array(capa_img.convert("L"))
Arr(capa_img, ij) == ConvertL(capa_img.filas[ij[1]][ij[2]])

\* variant of the ratio taken over the whole image
RazonSobreImagen(afectados, mask, capa_img) ==
    (afectados * 10000) \div (capa_img.size[1] * capa_img.size[2])

\* line 235: (afectados / arr_masked.size) * 100
Razon(afectados, mask, capa_img) == (afectados * 10000) \div Cardinality(mask)

\* lines 203-235, once the arguments have been read
PorcentajeDePixeles(parcela_geom, capa_img, bbox, umbral) ==
    LET mask == Mask(parcela_geom, capa_img, bbox)
        afectados == Cardinality({ij \in mask : EsAfectado(Arr(capa_img, ij), umbral)})
    IN  IF mask = {} THEN 0 ELSE Razon(afectados, mask, capa_img)

\* the whole call: pc_raster records the return statement that ran
CalcularPorcentajePixeles ==
    LET e == entrada_raster
    IN  /\ pc_raster = "inicio"
        /\ IF SinGeometria(e.parcela_geom)
           THEN /\ pc_raster' = "sin_geometria"
                /\ pct_raster' = 0
           ELSE IF FallaLectura(e.capa_img, e.bbox_wgs84)
           THEN /\ pc_raster' = "excepcion"
                /\ pct_raster' = 0
           ELSE /\ pc_raster' = "calculado"
                /\ pct_raster' = PorcentajeDePixeles(e.parcela_geom, e.capa_img,
                                       LeerBbox(e.bbox_wgs84), e.umbral)
        /\ UNCHANGED entrada_raster
        /\ UNCHANGED <<aggvars, ovvars, estvars, cachevars, otrosvars>>

InitRaster ==
    /\ OtrosEnReposo
    /\ AgregacionEnReposo
    /\ OverlayEnReposo
    /\ EstiloEnReposo
    /\ CacheEnReposo
    /\ entrada_raster \in [parcela_geom : GeometriasPosibles,
                           capa_img : ImagenesPosibles,
                           bbox_wgs84 : BboxPosibles,
                           umbral : UmbralesPosibles]
    /\ pc_raster = "inicio"
    /\ pct_raster = 0

NextRaster == CalcularPorcentajePixeles

SpecRaster == InitRaster /\ [][NextRaster]_vars

\* the pixels of the call whose sample point is inside the parcel
Dentro ==
    Mask(entrada_raster.parcela_geom, entrada_raster.capa_img,
         LeerBbox(entrada_raster.bbox_wgs84))

\* the inside pixels classified as affected
Afectados ==
    {ij \in Dentro : EsAfectado(Arr(entrada_raster.capa_img, ij), entrada_raster.umbral)}

\* C18: a computed result is affected_count / inside_count * 100 (to the
\* hundredth of a percent), it is 0 when no pixel is inside the parcel, and it
\* lies between 0 and 100.
C18_RazonDePixeles ==
    pc_raster = "calculado" =>
        /\ Dentro = {} => pct_raster = 0
        /\ Dentro # {} =>
               /\ pct_raster * Cardinality(Dentro) <= Cardinality(Afectados) * 10000
               /\ Cardinality(Afectados) * 10000 < (pct_raster + 1) * Cardinality(Dentro)
        /\ 0 <= pct_raster /\ pct_raster <= 10000

\* a call where only part of the image is inside the parcel and only part of
\* the inside pixels is affected
C18_Witness ==
    /\ pc_raster = "calculado"
    /\ Cardinality(Dentro) = 8
    /\ Cardinality(Afectados) = 4
    /\ pct_raster = 5000

\* the intensities of the inside pixels
Intensidades == {Arr(entrada_raster.capa_img, ij) : ij \in Dentro}

\* the inside pixels whose intensity is strictly below the threshold
BajoUmbral ==
    {ij \in Dentro : Arr(entrada_raster.capa_img, ij) < entrada_raster.umbral}

\* C19: an inside pixel is affected exactly when its intensity is strictly
\* below the threshold: a region wholly at or above the threshold gives 0, one
\* wholly at the threshold included, and a region wholly below it gives 100.
C19_UmbralEstricto ==
    (pc_raster = "calculado" /\ Dentro # {}) =>
        /\ (\A l \in Intensidades : l >= entrada_raster.umbral) => pct_raster = 0
        /\ (\A l \in Intensidades : l < entrada_raster.umbral) => pct_raster = 10000
        /\ pct_raster * Cardinality(Dentro) <= Cardinality(BajoUmbral) * 10000
        /\ Cardinality(BajoUmbral) * 10000 < (pct_raster + 1) * Cardinality(Dentro)

\* every inside pixel of the call is exactly at the default threshold and the
\* result is 0
C19_Witness ==
    /\ pc_raster = "calculado"
    /\ Cardinality(Dentro) = 9
    /\ entrada_raster.umbral = UmbralPorDefecto
    /\ Intensidades = {UmbralPorDefecto}
    /\ pct_raster = 0

\* C20: a figure that could not be computed (no parcel geometry, an error
\* inside the estimator) is not returned as a number: the caller can tell it
\* from a computed 0.
C20_NoEvaluadoDistinguible ==
    pc_raster \in {"sin_geometria", "excepcion"} => pct_raster \notin Nat

----------------------------------------------------------------------------
(* Properties of the overlay across parcels (SpecOverlay)                  *)

\* aplicar_titulo, line 243: the entries of the detail that the title prints,
\* those above 0.01 %
Reportado(porcentaje_detalle) ==
    [e \in {x \in DOMAIN porcentaje_detalle :
                \/ porcentaje_detalle[x].es = "inf"
                \/ /\ porcentaje_detalle[x].es = "finito"
                   /\ porcentaje_detalle[x].v > UmbralMaterialidad}
        |-> porcentaje_detalle[e]]

\* lines 425 and 432: the detail printed in the title of the map of layer i
DetalleDelTitulo(i) == Reportado(Get(capas_wms[i], "porcentaje_detalle", EmptyDict))

\* an entry of capas_wms as listar_capas_wms builds it (lines 85-92)
SinDetalle(capa) == [k \in (DOMAIN capa) \ {"porcentaje_detalle"} |-> capa[k]]

\* what the vector calculation yields for the parcel when no other parcel
\* was gone through before it
SalidaEnSolitario(parcela) ==
    BucleCapasWms([capas_wms |-> [i \in DOMAIN capas_wms |-> SinDetalle(capas_wms[i])],
                   resultados |-> <<>>, impresos |-> {}], parcela, 1)

\* C21: the output for a parcel and a layer is a function of the parcel, the
\* layer and its styling only: the rows and the per-class detail reported
\* for a parcel are those its analysis yields when it is the only one run,
\* whatever parcels were analysed before it.
C21_Idempotencia ==
    UltimaCargada =>
        LET solo == SalidaEnSolitario(parcelas_origen[i_parcela])
        IN  /\ resultados = solo.resultados
            /\ \A i \in DOMAIN capas_wms :
                   DetalleDelTitulo(i) =
                       Reportado(Get(solo.capas_wms[i], "porcentaje_detalle", EmptyDict))

\* the vector calculation of lines 305-333 ran to its end for the parcel and
\* the layer
CalculoHecho(parcela, capa) ==
    /\ capa["gpkg"] # ""
    /\ capa["existe"]
    /\ capa["legible"]
    /\ ~TiposMezclados(parcela)

\* C22: the per-class detail reported for a parcel and a layer was computed
\* from that parcel: when the calculation of the layer failed or was skipped
\* for the parcel no detail is reported, and otherwise the detail is that of
\* the intersection of this parcel with the layer.
C22_SinEstadoEntreParcelas ==
    UltimaCargada =>
        \A i \in DOMAIN capas_wms :
            LET parcela == parcelas_origen[i_parcela]
                capa == capas_wms[i]
            IN  /\ ~CalculoHecho(parcela, capa) => DetalleDelTitulo(i) = EmptyDict
                /\ CalculoHecho(parcela, capa) =>
                       DetalleDelTitulo(i) =
                           Reportado(PorcentajeDetalle(
                               Overlay(CapaFiltrada(capa["features"], parcela), parcela, FALSE),
                               GetLegendStyling(capa["leyenda"]), capa["columnas"],
                               ColumnaFlotante(capa["features"]), Area(parcela.celdas)))

\* what gpd.overlay yields for the parcel and all the features of the layer
\* of the n-th row, without the pre-filter
InterseccionSinFiltro(n) == Overlay(CapaDeFila(n)["features"], ParcelaDeFila(n), FALSE)

C30_PorcentajeSobreParcela ==
    /\ \A n \in DOMAIN resultados :
           ConCampo(n) =>
               \A e \in DOMAIN DetalleDeFila(n) :
                   \E c \in CodigosDeFila(n) :
                       LET grupo == SelectSeq(InterseccionDeFila(n),
                                              LAMBDA pieza : pieza.atributos.tipo = c)
                       IN  /\ Etiqueta(GetLegendStyling(CapaDeFila(n)["leyenda"]).labels,
                                       StrDeFila(n, c)) = e
                           /\ DetalleDeFila(n)[e] =
                                  Dividir(SumaAreas(grupo), Area(ParcelaDeFila(n).celdas))
    /\ (pc_ov = "urbano" /\ Area(entrada_urbano[1].celdas) > 0) =>
           \A t \in DOMAIN urbano[2] :
               urbano[2][t] = (urbano[1][t] * 10000) \div Area(entrada_urbano[1].celdas)

(***************************************************************************)
(* The coordinate reference systems on the paths that load a parcel:       *)
(* procesar_parcelas (vector_analyzer.py 269-312), AnalisisUrbano          *)
(* .procesar_parcela (cargar_parcela, descargar_capa_wfs and               *)
(* calcular_porcentajes) and descargar_set_capas_completo                  *)
(* (catastro_downloader.py 933-941).  A frame is followed by its CRS only. *)
(***************************************************************************)

\* the CRS a file can carry; NINGUNO is a file without CRS metadata
CrsDeArchivo == {NINGUNO, "EPSG:4326", "EPSG:4258", "EPSG:25830", "EPSG:32630", "EPSG:3857"}

\* the CRS whose unit is the metre
EsProyectado(crs) == crs \in {"EPSG:25830", "EPSG:32630", "EPSG:3857"}

\* crs_objetivo, as the only call of procesar_parcelas passes it (line 491)
CrsObjetivo == "EPSG:25830"

RutasDeCarga == {"procesar_parcelas", "procesar_parcela", "descargar_set_capas_completo"}

\* GeoDataFrame.to_crs raises for a frame without CRS
SinCrs(crs) == crs = NINGUNO

\* variant of the reprojection that leaves the frame as it is
ToCrsSinCambio(crs, destino) == crs

\* GeoDataFrame.to_crs of a frame that has a CRS
ToCrs(crs, destino) == destino

\* the coordinates of the pieces of gpd.overlay: those of its two frames when
\* they agree
CrsDeOverlay(crs1, crs2) == IF crs1 = crs2 THEN crs1 ELSE "mixto"

\* vector_analyzer.py 269: read_file(...).to_crs(epsg=4326); the ValueError
\* of a file without CRS goes to the except of line 467
LeerParcela ==
    /\ pc_crs = "inicio"
    /\ entrada_crs.ruta = "procesar_parcelas"
    /\ IF SinCrs(entrada_crs.crs_parcela)
       THEN /\ pc_crs' = "no_procesada"
            /\ UNCHANGED marco_crs
       ELSE /\ pc_crs' = "leida"
            /\ marco_crs' = ToCrs(entrada_crs.crs_parcela, "EPSG:4326")
    /\ UNCHANGED <<entrada_crs, areas_crs>>
    /\ UNCHANGED <<aggvars, ovvars, estvars, cachevars, rastervars, descvars, getvars, tmpvars>>

\* vector_analyzer.py 284-287: parcela_proj and its area
ProyectarParcela ==
    /\ pc_crs = "leida"
    /\ marco_crs' = ToCrs(marco_crs, CrsObjetivo)
    /\ areas_crs' = areas_crs \cup {<<"parcela", marco_crs'>>}
    /\ pc_crs' = "proyectada"
    /\ UNCHANGED entrada_crs
    /\ UNCHANGED <<aggvars, ovvars, estvars, cachevars, rastervars, descvars, getvars, tmpvars>>

\* vector_analyzer.py 304-312: the layer, the overlay and its area; a layer
\* without CRS raises into the except of line 335
CruzarCapa ==
    /\ pc_crs = "proyectada"
    /\ IF SinCrs(entrada_crs.crs_capa)
       THEN /\ pc_crs' = "capa_fallida"
            /\ UNCHANGED areas_crs
       ELSE /\ pc_crs' = "cruzada"
            /\ areas_crs' = areas_crs \cup
                   {<<"interseccion",
                      CrsDeOverlay(marco_crs, ToCrs(entrada_crs.crs_capa, CrsObjetivo))>>}
    /\ UNCHANGED <<entrada_crs, marco_crs>>
    /\ UNCHANGED <<aggvars, ovvars, estvars, cachevars, rastervars, descvars, getvars, tmpvars>>

\* analisisurbano_mejorado.py 84-98: cargar_parcela re-raises the ValueError
\* of a file without CRS
CargarParcela ==
    /\ pc_crs = "inicio"
    /\ entrada_crs.ruta = "procesar_parcela"
    /\ IF SinCrs(entrada_crs.crs_parcela)
       THEN /\ pc_crs' = "lanzada"
            /\ UNCHANGED marco_crs
       ELSE /\ pc_crs' = "cargada"
            /\ marco_crs' = ToCrs(entrada_crs.crs_parcela, "EPSG:3857")
    /\ UNCHANGED <<entrada_crs, areas_crs>>
    /\ UNCHANGED <<aggvars, ovvars, estvars, cachevars, rastervars, descvars, getvars, tmpvars>>

\* analisisurbano_mejorado.py 446 and 449: descargar_capa_wfs reprojects the
\* layer (line 151) and calcular_porcentajes the parcel (185), overlays them
\* (188) and takes the area (195)
CruzarPlaneamiento ==
    /\ pc_crs = "cargada"
    /\ IF SinCrs(entrada_crs.crs_capa)
       THEN /\ pc_crs' = "lanzada"
            /\ UNCHANGED <<marco_crs, areas_crs>>
       ELSE /\ pc_crs' = "calculada"
            /\ marco_crs' = ToCrs(marco_crs, "EPSG:25830")
            /\ areas_crs' = areas_crs \cup
                   {<<"interseccion",
                      CrsDeOverlay(ToCrs(entrada_crs.crs_capa, "EPSG:25830"), marco_crs')>>}
    /\ UNCHANGED entrada_crs
    /\ UNCHANGED <<aggvars, ovvars, estvars, cachevars, rastervars, descvars, getvars, tmpvars>>

\* catastro_downloader.py 933-941: a GML without CRS is given EPSG:25830
CargarGml ==
    /\ pc_crs = "inicio"
    /\ entrada_crs.ruta = "descargar_set_capas_completo"
    /\ LET crs == IF SinCrs(entrada_crs.crs_parcela)
                  THEN "EPSG:25830" ELSE entrada_crs.crs_parcela
       IN  marco_crs' = ToCrs(crs, "EPSG:4326")
    /\ pc_crs' = "gml_cargado"
    /\ UNCHANGED <<entrada_crs, areas_crs>>
    /\ UNCHANGED <<aggvars, ovvars, estvars, cachevars, rastervars, descvars, getvars, tmpvars>>

InitCrs ==
    /\ AgregacionEnReposo
    /\ OverlayEnReposo
    /\ EstiloEnReposo
    /\ CacheEnReposo
    /\ RasterEnReposo
    /\ DescargaEnReposo
    /\ SafeGetEnReposo
    /\ TemporalesEnReposo
    /\ entrada_crs \in [ruta : RutasDeCarga, crs_parcela : CrsDeArchivo,
                        crs_capa : CrsDeArchivo]
    /\ pc_crs = "inicio"
    /\ marco_crs = NINGUNO
    /\ areas_crs = {}

NextCrs ==
    \/ LeerParcela
    \/ ProyectarParcela
    \/ CruzarCapa
    \/ CargarParcela
    \/ CruzarPlaneamiento
    \/ CargarGml

SpecCrs == InitCrs /\ [][NextCrs]_vars

\* C23: a parcel file without CRS metadata is loaded all the same: the run
\* does not end in the exception of the loader.
C23_CrsPorDefecto ==
    SinCrs(entrada_crs.crs_parcela) => pc_crs \notin {"no_procesada", "lanzada"}

\* C25: every area, of a parcel or of an intersection, is taken on geometry
\* that is in a projected CRS at that moment.
C25_AreaProyectada ==
    \A a \in areas_crs : EsProyectado(a[2])

\* a parcel file and a layer in geographic CRS went through procesar_parcelas
\* and both areas were taken
C25_Witness ==
    /\ pc_crs = "cruzada"
    /\ entrada_crs.crs_parcela = "EPSG:4326"
    /\ entrada_crs.crs_capa = "EPSG:4258"
    /\ areas_crs = {<<"parcela", "EPSG:25830">>, <<"interseccion", "EPSG:25830">>}

(***************************************************************************)
(* The callers of descargar_todo_completo (SpecAgg)                        *)
(***************************************************************************)

\* C26: when descargar_todo_completo reports success, paso1_analizar takes
\* what it returned and goes on to its success path: the request does not
\* end in the error response.
C26_ExitoSinError ==
    (pc = "paso1" /\ peticion.exito) => informe # RespuestaError

(***************************************************************************)
(* CatastroDownloader.descargar_todo_completo (catastro_downloader.py      *)
(* 1047-1101), step by step.  pasos is the sequence of the calls it has    *)
(* made, gml_path its local variable and retorno the tuple it returned.    *)
(***************************************************************************)

\* what the primary request of descargar_parcela_gml can meet (512-532): a
\* GML that is written, an ExceptionReport, a status other than 200, an
\* exception of requests
RespuestasPrimarias == {"archivo", "exception_report", "status", "excepcion"}

\* descargar_parcela_gml (496-532): the file name, or None
DescargarParcelaGmlDe(primario) ==
    IF primario = "archivo" THEN "parcela.gml" ELSE NINGUNO

\* _descargar_gml_robust (534-560): True when the file is already there or
\* one of its attempts brings a GML
DescargarGmlRobustDe(en_disco, robusto) == en_disco \/ robusto

\* variant of the test that asks for the fallback after every primary download
SinRutaSiempre(ruta) == TRUE

\* "if not gml_path" (1062, 1067)
SinRuta(ruta) == ruta = NINGUNO

\* 1061: the primary download
DescargarParcelaGml ==
    /\ pc_descarga = "inicio"
    /\ gml_path' = DescargarParcelaGmlDe(entrada_descarga.primario)
    /\ pasos' = Append(pasos, "gml")
    /\ pc_descarga' = "gml"
    /\ UNCHANGED <<entrada_descarga, retorno>>
    /\ UNCHANGED <<aggvars, ovvars, estvars, cachevars, rastervars, crsvars, getvars, tmpvars>>

\* 1062-1065: the fallback
DescargarGmlRobust ==
    /\ pc_descarga = "gml"
    /\ SinRuta(gml_path)
    /\ gml_path' = IF DescargarGmlRobustDe(entrada_descarga.en_disco,
                                           entrada_descarga.robusto)
                   THEN "parcela.gml" ELSE gml_path
    /\ pasos' = Append(pasos, "gml_robusto")
    /\ pc_descarga' = "gml_robusto"
    /\ UNCHANGED <<entrada_descarga, retorno>>
    /\ UNCHANGED <<aggvars, ovvars, estvars, cachevars, rastervars, crsvars, getvars, tmpvars>>

\* 1067-1069: no GML from either download
SinGml ==
    /\ pc_descarga = "gml_robusto"
    /\ gml_path = NINGUNO
    /\ retorno' = DescargarTodoCompleto(FALSE)
    /\ pc_descarga' = "devuelto"
    /\ UNCHANGED <<entrada_descarga, gml_path, pasos>>
    /\ UNCHANGED <<aggvars, ovvars, estvars, cachevars, rastervars, crsvars, getvars, tmpvars>>

\* 1071-1076: coordinates and basic data, written to JSON when there are any
ObtenerCoordenadasYDatos ==
    /\ \/ pc_descarga = "gml" /\ ~SinRuta(gml_path)
       \/ pc_descarga = "gml_robusto" /\ gml_path # NINGUNO
    /\ pasos' = pasos \o <<"coordenadas", "datos">>
                      \o (IF entrada_descarga.data THEN <<"json">> ELSE <<>>)
    /\ pc_descarga' = "datos"
    /\ UNCHANGED <<entrada_descarga, gml_path, retorno>>
    /\ UNCHANGED <<aggvars, ovvars, estvars, cachevars, rastervars, crsvars, getvars, tmpvars>>

\* 1078-1088: the maps with the pixel analysis and the contours
DescargarSetCapas ==
    /\ pc_descarga = "datos"
    /\ entrada_descarga.coords
    /\ pasos' = pasos \o <<"mapas", "contorno">>
    /\ pc_descarga' = "mapas"
    /\ UNCHANGED <<entrada_descarga, gml_path, retorno>>
    /\ UNCHANGED <<aggvars, ovvars, estvars, cachevars, rastervars, crsvars, getvars, tmpvars>>

\* 1090-1091
ConvertirGmlAKml ==
    /\ \/ pc_descarga = "mapas"
       \/ pc_descarga = "datos" /\ ~entrada_descarga.coords
    /\ pasos' = Append(pasos, "kml")
    /\ pc_descarga' = "kml"
    /\ UNCHANGED <<entrada_descarga, gml_path, retorno>>
    /\ UNCHANGED <<aggvars, ovvars, estvars, cachevars, rastervars, crsvars, getvars, tmpvars>>

\* 1093-1096
DescargarEdificiosYFichas ==
    /\ pc_descarga = "kml"
    /\ pasos' = pasos \o <<"edificios", "pdf">>
    /\ pc_descarga' = "fichas"
    /\ UNCHANGED <<entrada_descarga, gml_path, retorno>>
    /\ UNCHANGED <<aggvars, ovvars, estvars, cachevars, rastervars, crsvars, getvars, tmpvars>>

\* 1098-1101: _crear_zip (1038-1045) has no except, so an error of the file
\* system while writing leaves the call through the exception
CrearZip ==
    /\ pc_descarga = "fichas"
    /\ IF entrada_descarga.zip_falla
       THEN /\ pc_descarga' = "lanzado"
            /\ UNCHANGED <<pasos, retorno>>
       ELSE /\ pasos' = Append(pasos, "zip")
            /\ retorno' = DescargarTodoCompleto(TRUE)
            /\ pc_descarga' = "devuelto"
    /\ UNCHANGED <<entrada_descarga, gml_path>>
    /\ UNCHANGED <<aggvars, ovvars, estvars, cachevars, rastervars, crsvars, getvars, tmpvars>>

InitDescarga ==
    /\ AgregacionEnReposo
    /\ OverlayEnReposo
    /\ EstiloEnReposo
    /\ CacheEnReposo
    /\ RasterEnReposo
    /\ CrsEnReposo
    /\ SafeGetEnReposo
    /\ TemporalesEnReposo
    /\ entrada_descarga \in [primario : RespuestasPrimarias, en_disco : BOOLEAN,
                             robusto : BOOLEAN, coords : BOOLEAN, data : BOOLEAN,
                             zip_falla : BOOLEAN]
    /\ pc_descarga = "inicio"
    /\ gml_path = NINGUNO
    /\ pasos = <<>>
    /\ retorno = <<>>

NextDescarga ==
    \/ DescargarParcelaGml
    \/ DescargarGmlRobust
    \/ SinGml
    \/ ObtenerCoordenadasYDatos
    \/ DescargarSetCapas
    \/ ConvertirGmlAKml
    \/ DescargarEdificiosYFichas
    \/ CrearZip

SpecDescarga == InitDescarga /\ [][NextDescarga]_vars

\* the positions of a call in pasos
Posiciones(paso) == {n \in 1..Len(pasos) : pasos[n] = paso}

\* the steps that come after the GML
PasosPosteriores ==
    {"coordenadas", "datos", "json", "mapas", "contorno", "kml", "edificios",
     "pdf", "zip"}

\* C27: the robust download is attempted only right after a primary download
\* that returned nothing; when both fail the call returns (False, None, {})
\* and no later step has run; when the call returns success the ZIP was
\* created once, after every other step.
C27_OrdenDeDescarga ==
    /\ Posiciones("gml_robusto") # {} =>
          /\ pasos[1] = "gml"
          /\ Posiciones("gml_robusto") = {2}
          /\ entrada_descarga.primario # "archivo"
    /\ ( /\ pc_descarga # "inicio"
         /\ entrada_descarga.primario # "archivo"
         /\ ~entrada_descarga.en_disco
         /\ ~entrada_descarga.robusto ) =>
          /\ \A n \in 1..Len(pasos) : pasos[n] \notin PasosPosteriores
          /\ pc_descarga \in {"gml", "gml_robusto", "devuelto"}
          /\ pc_descarga = "devuelto" =>
                /\ Len(retorno) = 3
                /\ ~retorno[1]
                /\ retorno[2] = NINGUNO
                /\ retorno[3] = "{}"
                /\ pasos = <<"gml", "gml_robusto">>
    /\ (Len(retorno) = 3 /\ retorno[1]) =>
          /\ Posiciones("zip") = {Len(pasos)}
          /\ \A paso \in {"gml", "coordenadas", "datos", "kml", "edificios", "pdf"} :
                Posiciones(paso) # {}
          /\ entrada_descarga.coords => Posiciones("mapas") # {}

\* the primary download returned nothing, the fallback brought the GML and
\* the call returned success after the maps and the ZIP
C27_Witness ==
    /\ pc_descarga = "devuelto"
    /\ Len(retorno) = 3
    /\ retorno[1]
    /\ entrada_descarga.primario = "exception_report"
    /\ entrada_descarga.robusto
    /\ entrada_descarga.coords
    /\ Posiciones("gml_robusto") = {2}
    /\ Posiciones("zip") = {Len(pasos)}

(***************************************************************************)
(* safe_get (catastro_downloader.py 42-55).  attempt counts the requests   *)
(* made so far, which is the next value of the loop variable.              *)
(***************************************************************************)

\* the largest max_retries explored; the callers use the default, 2
MaxRetries == 2

\* what a request can end in: a response with its status code, or one of
\* the exceptions under requests.exceptions.RequestException
Respuestas == {"200", "500"}
Excepciones == {"Timeout", "ConnectionError"}

\* variant of the loop bound that leaves out the first attempt
NumIntentosSinPrimero(max_retries) == max_retries

\* range(max_retries + 1), line 45
NumIntentos(max_retries) == max_retries + 1

\* lines 45-54: one turn of the loop
Intentar ==
    /\ pc_get \in {"inicio", "bucle"}
    /\ attempt < NumIntentos(entrada_get.max_retries)
    /\ LET r == entrada_get.resultados[attempt + 1]
       IN  IF r \in Respuestas
           THEN /\ retorno_get' = r
                /\ pc_get' = "devuelto"
                /\ UNCHANGED last_exc
           ELSE /\ last_exc' = r
                /\ pc_get' = "bucle"
                /\ UNCHANGED retorno_get
    /\ attempt' = attempt + 1
    /\ UNCHANGED entrada_get
    /\ UNCHANGED <<aggvars, ovvars, estvars, cachevars, rastervars, crsvars, descvars, tmpvars>>

\* line 55: raise last_exc
LanzarUltima ==
    /\ pc_get \in {"inicio", "bucle"}
    /\ attempt >= NumIntentos(entrada_get.max_retries)
    /\ pc_get' = "lanzado"
    /\ UNCHANGED <<entrada_get, attempt, last_exc, retorno_get>>
    /\ UNCHANGED <<aggvars, ovvars, estvars, cachevars, rastervars, crsvars, descvars, tmpvars>>

InitSafeGet ==
    /\ AgregacionEnReposo
    /\ OverlayEnReposo
    /\ EstiloEnReposo
    /\ CacheEnReposo
    /\ RasterEnReposo
    /\ CrsEnReposo
    /\ DescargaEnReposo
    /\ TemporalesEnReposo
    /\ entrada_get \in [max_retries : 0..MaxRetries,
                        resultados : [1..(MaxRetries + 1) -> Respuestas \cup Excepciones]]
    /\ pc_get = "inicio"
    /\ attempt = 0
    /\ last_exc = NINGUNO
    /\ retorno_get = NINGUNO

NextSafeGet ==
    \/ Intentar
    \/ LanzarUltima

SpecSafeGet == InitSafeGet /\ [][NextSafeGet]_vars

\* C28: safe_get makes at most max_retries + 1 requests; it returns the first
\* response that came without a request exception, whatever its status, and
\* makes no request after it; it raises the exception of the last attempt
\* exactly when all max_retries + 1 attempts raised.
C28_ReintentosAcotados ==
    LET intentos == entrada_get.max_retries + 1
        fallados == {n \in 1..intentos : entrada_get.resultados[n] \in Excepciones}
    IN  /\ attempt <= intentos
        /\ pc_get = "devuelto" =>
              /\ attempt \in 1..intentos
              /\ retorno_get = entrada_get.resultados[attempt]
              /\ retorno_get \in Respuestas
              /\ 1..(attempt - 1) \subseteq fallados
        /\ pc_get = "lanzado" =>
              /\ attempt = intentos
              /\ fallados = 1..intentos
              /\ last_exc = entrada_get.resultados[intentos]
              /\ retorno_get = NINGUNO
        /\ (pc_get \in {"devuelto", "lanzado"} /\ fallados = 1..intentos) =>
              pc_get = "lanzado"

\* the first attempt raised, the second brought a response with status 500
\* and safe_get returned it with one retry still left
C28_Witness ==
    /\ pc_get = "devuelto"
    /\ entrada_get.max_retries = 2
    /\ attempt = 2
    /\ last_exc = "Timeout"
    /\ retorno_get = "500"

(***************************************************************************)
(* The temporary files of AnalisisUrbano.procesar_parcela                  *)
(* (analisisurbano_mejorado.py 461-489): rutas_tmp holds the local         *)
(* variables ortofoto_path, urbanismo_path and leyenda_path, archivos_tmp  *)
(* the temporary files that exist on disk.                                 *)
(***************************************************************************)

\* how a download can end: the file is written and its path returned; the
\* request fails before NamedTemporaryFile; the write fails after
\* NamedTemporaryFile(delete=False) created the file
FinesDeDescarga == {"ok", "falla_peticion", "falla_escritura"}

\* the file that a download leaves on disk
ArchivosTras(archivos, fin, archivo) ==
    IF fin = "falla_peticion" THEN archivos ELSE archivos \cup {archivo}

\* line 462 and descargar_ortofoto (229-269), which re-raises
DescargarOrtofoto ==
    /\ pc_tmp = "inicio"
    /\ archivos_tmp' = ArchivosTras(archivos_tmp, entrada_tmp.ortofoto, "ortofoto.jpg")
    /\ IF entrada_tmp.ortofoto = "ok"
       THEN /\ rutas_tmp' = Put(rutas_tmp, "ortofoto_path", "ortofoto.jpg")
            /\ pc_tmp' = "ortofoto"
       ELSE /\ pc_tmp' = "lanzado"
            /\ UNCHANGED rutas_tmp
    /\ UNCHANGED entrada_tmp
    /\ UNCHANGED <<aggvars, ovvars, estvars, cachevars, rastervars, crsvars, descvars, getvars>>

\* line 463 and descargar_urbanismo (271-308), which re-raises; the exception
\* leaves procesar_parcela through the except of 487-489
DescargarUrbanismo ==
    /\ pc_tmp = "ortofoto"
    /\ archivos_tmp' = ArchivosTras(archivos_tmp, entrada_tmp.urbanismo, "urbanismo.png")
    /\ IF entrada_tmp.urbanismo = "ok"
       THEN /\ rutas_tmp' = Put(rutas_tmp, "urbanismo_path", "urbanismo.png")
            /\ pc_tmp' = "urbanismo"
       ELSE /\ pc_tmp' = "lanzado"
            /\ UNCHANGED rutas_tmp
    /\ UNCHANGED entrada_tmp
    /\ UNCHANGED <<aggvars, ovvars, estvars, cachevars, rastervars, crsvars, descvars, getvars>>

\* line 464 and descargar_leyenda (310-337), which returns None on failure
DescargarLeyenda ==
    /\ pc_tmp = "urbanismo"
    /\ archivos_tmp' = ArchivosTras(archivos_tmp, entrada_tmp.leyenda, "leyenda.png")
    /\ rutas_tmp' = Put(rutas_tmp, "leyenda_path",
                        IF entrada_tmp.leyenda = "ok" THEN "leyenda.png" ELSE NINGUNO)
    /\ pc_tmp' = "leyenda"
    /\ UNCHANGED entrada_tmp
    /\ UNCHANGED <<aggvars, ovvars, estvars, cachevars, rastervars, crsvars, descvars, getvars>>

\* _limpiar_temporales (511-518): unlinks the paths that exist; an unlink
\* that raises is logged and the file stays
LimpiarTemporales(archivos, temp_files, unlink_falla) ==
    IF unlink_falla THEN archivos ELSE archivos \ temp_files

\* lines 466-485: generar_mapa inside try, _limpiar_temporales in finally,
\* then the results, or the exception of generar_mapa
GenerarMapa ==
    /\ pc_tmp = "leyenda"
    /\ archivos_tmp' =
          LimpiarTemporales(archivos_tmp,
                            {rutas_tmp[k] : k \in {"ortofoto_path", "urbanismo_path",
                                                    "leyenda_path"}} \ {NINGUNO},
                            entrada_tmp.unlink_falla)
    /\ pc_tmp' = IF entrada_tmp.mapa_falla THEN "lanzado" ELSE "devuelto"
    /\ UNCHANGED <<entrada_tmp, rutas_tmp>>
    /\ UNCHANGED <<aggvars, ovvars, estvars, cachevars, rastervars, crsvars, descvars, getvars>>

InitTemporales ==
    /\ AgregacionEnReposo
    /\ OverlayEnReposo
    /\ EstiloEnReposo
    /\ CacheEnReposo
    /\ RasterEnReposo
    /\ CrsEnReposo
    /\ DescargaEnReposo
    /\ SafeGetEnReposo
    /\ entrada_tmp \in [ortofoto : FinesDeDescarga, urbanismo : FinesDeDescarga,
                        leyenda : FinesDeDescarga, mapa_falla : BOOLEAN,
                        unlink_falla : BOOLEAN]
    /\ pc_tmp = "inicio"
    /\ rutas_tmp = EmptyDict
    /\ archivos_tmp = {}

NextTemporales ==
    \/ DescargarOrtofoto
    \/ DescargarUrbanismo
    \/ DescargarLeyenda
    \/ GenerarMapa

SpecTemporales == InitTemporales /\ [][NextTemporales]_vars

\* C29: once procesar_parcela has returned or raised, none of the temporary
\* files it downloaded in that call is left on disk.
C29_TemporalesBorrados ==
    pc_tmp \in {"devuelto", "lanzado"} => archivos_tmp = {}

====
